---- MODULE Spec2Model ----
(***************************************************************************)
(* Opening-tree construction of the Chess_Games repository:                *)
(* the tree context (src/src/context/ChessTreeContext.js) with its chunked *)
(* background build, and the tree utilities (treeUtils.js).                *)
(*                                                                         *)
(* A tree is a function from paths to nodes.  A path is the sequence of    *)
(* move keys (`${from}${to}${promotion}`) leading from the root to the     *)
(* node, the root being the empty path; the `children` object of a node is *)
(* the set of paths one key longer.  A node carries its `games` list (the  *)
(* game summaries, represented by their ids) and its `frequency`.          *)
(* Date.now() timestamps are not modelled.                                 *)
(***************************************************************************)
EXTENDS Integers, Sequences, FiniteSets, TLC

-----------------------------------------------------------------------------
(* Program constants *)

chunkSize == 10
snapshotEvery == 50
DefaultMaxDepth == 20
DefaultMinGames == 15

(* Bounds of the model *)

MaxGames == 21      \* largest Game Store content
MaxBuilds == 2      \* builds started in one session
MaxApplies == 2     \* handleApplyParameters calls in one session

Min(a, b) == IF a < b THEN a ELSE b

Max(a, b) == IF a > b THEN a ELSE b

-----------------------------------------------------------------------------
(* The Game Store records and what the Move Engine makes of their PGN.     *)
(* pgn = "none": the record has no pgn field; "bad": loadPgn throws;       *)
(* "ok": history() yields `moves` (possibly none).                         *)

Game(id) ==
  CASE id % 6 = 1 -> [id |-> id, pgn |-> "ok",   moves |-> <<"e2e4", "e7e5">>]
    [] id % 6 = 2 -> [id |-> id, pgn |-> "ok",   moves |-> <<"e2e4", "c7c5">>]
    [] id % 6 = 3 -> [id |-> id, pgn |-> "none", moves |-> <<>>]
    [] id % 6 = 4 -> [id |-> id, pgn |-> "ok",   moves |-> <<"d2d4", "d7d5", "c2c4">>]
    [] id % 6 = 5 -> [id |-> id, pgn |-> "bad",  moves |-> <<>>]
    [] OTHER      -> [id |-> id, pgn |-> "ok",   moves |-> <<>>]

-----------------------------------------------------------------------------
(* Trees *)

NoTree == <<>>          \* null: a tree always has its root path in its domain

Root == <<>>

NewNode == [games |-> <<>>, frequency |-> 0]

\* the placeholder root of buildInitialTree / handleApplyParameters
InitialTree(n) == (Root :> [games |-> <<>>, frequency |-> n])

Children(tree, p) ==
  {q \in DOMAIN tree : Len(q) = Len(p) + 1 /\ SubSeq(q, 1, Len(p)) = p}

Parent(p) == SubSeq(p, 1, Len(p) - 1)

IsPrefix(p, q) == Len(p) <= Len(q) /\ SubSeq(q, 1, Len(p)) = p

Subtree(tree, p) == [q \in {r \in DOMAIN tree : IsPrefix(p, r)} |-> tree[q]]

Ids(gs) == {gs[i] : i \in DOMAIN gs}

\* if (!node.games.some(g => g.id === game.id)) node.games.push({...})
PushIfAbsent(gs, id) == IF id \in Ids(gs) THEN gs ELSE Append(gs, id)

\* the body of the for loop over the plies, from ply i (0-based) on
RECURSIVE Descend(_, _, _, _, _)
Descend(tree, moves, id, depth, i) ==
  IF ~(i < Len(moves) /\ i < depth) THEN tree
  ELSE LET p  == SubSeq(moves, 1, i + 1)
           t1 == IF p \in DOMAIN tree THEN tree ELSE (p :> NewNode) @@ tree
           t2 == [t1 EXCEPT ![p] = [games     |-> PushIfAbsent(@.games, id),
                                    frequency |-> @.frequency + 1]]
       IN  Descend(t2, moves, id, depth, i + 1)

\* the walk going one ply beyond maxDepth
ProcessGamePastDepth(tree, id, depth) ==
  LET g == Game(id) IN
  IF g.pgn # "ok" THEN tree
  ELSE Descend([tree EXCEPT ![Root].games = PushIfAbsent(@, id)],
               g.moves, id, depth + 1, 0)

\* a game without moves left out of the root's games list
ProcessGameSkipsMoveless(tree, id, depth) ==
  LET g == Game(id) IN
  IF g.pgn # "ok" \/ g.moves = <<>> \/ depth < 0 THEN tree
  ELSE Descend([tree EXCEPT ![Root].games = PushIfAbsent(@, id)],
               g.moves, id, depth, 0)

\* one iteration of gamesChunk.forEach
ProcessGame(tree, id, depth) ==
  LET game == Game(id) IN
  IF game.pgn = "none" THEN tree
  ELSE IF game.pgn = "bad" THEN tree
  ELSE Descend([tree EXCEPT ![Root].games = PushIfAbsent(@, id)],
               game.moves, id, depth, 0)

\* gamesChunk.forEach on the copy of existingTree. The two branches on the
\* tree are the same call: the test has the tree after each game computed
\* before the next game is taken, as forEach does.
RECURSIVE incrementalBuildTree(_, _, _)
incrementalBuildTree(existingTree, gamesChunk, depth) ==
  IF gamesChunk = <<>> THEN existingTree
  ELSE LET tree == ProcessGame(existingTree, Head(gamesChunk), depth)
       IN  IF tree = existingTree
           THEN incrementalBuildTree(existingTree, Tail(gamesChunk), depth)
           ELSE incrementalBuildTree(tree, Tail(gamesChunk), depth)

\* the paths pruneTree keeps below and including p
RECURSIVE KeptPaths(_, _, _)
KeptPaths(tree, p, m) ==
  {p} \cup UNION {KeptPaths(tree, c, m) :
                    c \in {k \in Children(tree, p) : ~(tree[k].frequency < m)}}

\* pruning that keeps the rare children instead of the frequent ones
pruneTreeRare(node, m) ==
  IF node = NoTree THEN node
  ELSE [p \in {q \in DOMAIN node :
                 \A k \in 1..Len(q) : node[SubSeq(q, 1, k)].frequency <= m}
          |-> node[p]]

\* pruning that drops a child whose frequency equals the threshold
pruneTreeStrict(node, m) ==
  IF node = NoTree THEN node
  ELSE [p \in KeptPaths(node, Root, m + 1) |-> node[p]]

\* pruning that leaves, in a node that lost children, the number of children
\* it kept as its frequency
pruneTreeRecounting(node, m) ==
  IF node = NoTree THEN node
  ELSE LET kept == KeptPaths(node, Root, m) IN
       [p \in kept |->
          IF p # Root /\ ~(Children(node, p) \subseteq kept)
          THEN [node[p] EXCEPT
                  !.frequency = Cardinality(Children(node, p) \cap kept)]
          ELSE node[p]]

pruneTree(node, m) ==
  IF node = NoTree THEN node
  ELSE [p \in KeptPaths(node, Root, m) |-> node[p]]

\* treeUtils: pruneTreeNodes deletes, in place, what pruneTree leaves out
pruneTreeNodes(node, m) ==
  IF node = NoTree THEN node
  ELSE [p \in KeptPaths(node, Root, m) |-> node[p]]

\* treeUtils: the for loop of buildVariationTree over the plies
RECURSIVE Walk(_, _, _, _, _)
Walk(tree, moves, id, depth, i) ==
  IF ~(i < Len(moves) /\ i < depth) THEN tree
  ELSE LET p  == SubSeq(moves, 1, i + 1)
           t1 == IF p \in DOMAIN tree THEN tree ELSE (p :> NewNode) @@ tree
           t2 == [t1 EXCEPT ![p] = [games     |-> Append(@.games, id),
                                    frequency |-> @.frequency + 1]]
       IN  Walk(t2, moves, id, depth, i + 1)

\* treeUtils: games.forEach of buildVariationTree, gameMap holding `seen`
RECURSIVE AddGames(_, _, _, _)
AddGames(root, gs, depth, seen) ==
  IF gs = <<>> THEN root
  ELSE LET id == Head(gs)
           game == Game(id)
       IN  IF game.pgn = "none" \/ id \in seen
           THEN AddGames(root, Tail(gs), depth, seen)
           ELSE IF game.pgn = "bad"
           THEN AddGames(root, Tail(gs), depth, seen \cup {id})
           ELSE AddGames(
                  Walk([root EXCEPT ![Root] =
                          [games |-> Append(@.games, id),
                           frequency |-> @.frequency + 1]],
                       game.moves, id, depth, 0),
                  Tail(gs), depth, seen \cup {id})

buildVariationTree(gs, depth, m) ==
  IF gs = <<>> THEN NoTree
  ELSE pruneTreeNodes(AddGames(InitialTree(0), gs, depth, {}), m)

\* a merge that leaves the games of a node both trees have as they are
MergeGamesKeepBase(node, existing, newGames) == node

\* the root step of mergeTrees on one node: existingGameIds is computed once,
\* before the loop
RECURSIVE MergeGames(_, _, _)
MergeGames(node, existing, newGames) ==
  IF newGames = <<>> THEN node
  ELSE LET g == Head(newGames) IN
       MergeGames(IF g \in existing THEN node
                  ELSE [games |-> Append(node.games, g),
                        frequency |-> node.frequency + 1],
                  existing, Tail(newGames))

RECURSIVE MergeAt(_, _, _)
RECURSIVE MergeKeys(_, _, _)
MergeKeys(result, newTree, keys) ==
  IF keys = {} THEN result
  ELSE LET c == CHOOSE k \in keys : TRUE
           r == IF c \notin DOMAIN result
                THEN Subtree(newTree, c) @@ result
                ELSE MergeAt(result, newTree, c)
       IN  MergeKeys(r, newTree, keys \ {c})

\* mergeTrees on the node at path p, result being the copy of baseTree
MergeAt(result, newTree, p) ==
  LET r1 == [result EXCEPT
               ![p] = MergeGames(@, Ids(@.games), newTree[p].games)]
  IN  MergeKeys(r1, newTree, Children(newTree, p))

mergeTrees(baseTree, newTree) ==
  IF baseTree = NoTree THEN newTree
  ELSE IF newTree = NoTree THEN baseTree
  ELSE MergeAt(baseTree, newTree, Root)

-----------------------------------------------------------------------------
(* The clock, and the arguments and results of the persistence functions   *)
(* when they are called on their own                                        *)

VARIABLES
  now,                \* what Date.now() returns
  givenMetadata,      \* the metadata passed to serializeTree / shouldRebuildTree
  payload,            \* serializeTree's result, deserializeTree's argument
  decoded,            \* what deserializeTree returned
  current,            \* currentGames.length, currentMaxDepth, currentMinGames
  rebuild             \* what shouldRebuildTree returned

codecVars == <<now, givenMetadata, payload, decoded, current, rebuild>>

-----------------------------------------------------------------------------
(* Persistence: metadata objects are functions from field names to values  *)

NullMeta == [null |-> TRUE]

\* {...metadata}: spreading null gives {}
Spread(metadata) == IF metadata = NullMeta THEN <<>> ELSE metadata

\* {...a, ...b}: the later fields win
Assign(a, b) == b @@ a

NoPayload == [kind |-> "none"]            \* localStorage has no such key
CorruptPayload == [kind |-> "corrupt"]    \* a string JSON.parse rejects
\* what the version before the metadata wrote: JSON.stringify(tree)
LegacyPayload(tree) == [kind |-> "legacy", tree |-> tree]

\* a tree as the metadata-less serializeTree stored it: two games that open
\* e2e4, built with the default depth and pruned at the default threshold
LegacyTree == buildVariationTree(<<1, 2>>, 10, 2)

\* JSON.stringify({tree, metadata: {...metadata, timestamp, version}}); the
\* values JSON.stringify meets here (numbers, strings, booleans, arrays and
\* objects of these) are those JSON.parse gives back
serializeTree(tree, metadata) ==
  [kind |-> "json", tree |-> tree,
   metadata |-> Assign(Spread(metadata),
                       [timestamp |-> now, version |-> "1.0"])]

\* a save that writes the root without its children
saveRootOnly(tree, metadata, cap) ==
  serializeTree([p \in {Root} |-> tree[Root]],
                Assign(Spread(metadata),
                       [gameCount |-> cap.gameCount,
                        maxDepth  |-> cap.maxDepth,
                        minGames  |-> cap.minGames,
                        timestamp |-> now]))

\* saveTreeToStorage as closed over the render `cap` it was created in
saveTreeToStorage(tree, metadata, cap) ==
  serializeTree(tree, Assign(Spread(metadata),
                             [gameCount |-> cap.gameCount,
                              maxDepth  |-> cap.maxDepth,
                              minGames  |-> cap.minGames,
                              timestamp |-> now]))

-----------------------------------------------------------------------------
(* The tree context *)

VARIABLES
  storeGames,         \* the Game Store: what getGames() resolves to
  stored,             \* localStorage[TREE_STORAGE_KEY]
  mounted,            \* the mount effect (loadGamesAndTree) has run
  games,              \* React state of ChessTreeProvider ...
  treeData,
  treeAlias,          \* the build whose working tree shares the games array
                      \* and children object of treeData's root (0: none)
  workingTreeData,    \* the build whose working tree it shows (0: null)
  loading,
  buildingInProgress,
  maxDepth,
  minGames,
  processedGames,
  treeMetadata,
  builds,             \* the closures of the startTreeBuilding calls, in order
  applies,            \* number of handleApplyParameters calls so far
  ev,                 \* the last handler or callback that ran
  objs,               \* how many tree objects have been created so far
  treeObj,            \* which of them treeData is (0: null)
  selectedNode,       \* a node object: the tree object it is part of and
                      \* where in it it sits
  currentPosition,    \* a FEN, written as the moves that lead to it
  path                \* the node objects of the breadcrumb

ctxVars == <<storeGames, stored, mounted, games, treeData, treeAlias,
             workingTreeData, loading, buildingInProgress, maxDepth, minGames,
             processedGames, treeMetadata, builds, applies, ev,
             objs, treeObj, selectedNode, currentPosition, path>>

\* The tree functions applied on their own (incrementalBuildTree, pruneTree,
\* mergeTrees called by a client on trees it holds)
VARIABLES
  inGames,            \* the game list a tree is being built from
  inDepth,            \* the maxDepth it is built with
  consumed,           \* how many of inGames have been passed to the builder
  tree,               \* the tree
  prevTree,           \* the tree before the last call
  otherGames,         \* a second tree, likewise
  otherDepth,
  otherConsumed,
  otherTree,
  lastOp              \* the last call made

algVars == <<inGames, inDepth, consumed, tree, prevTree, otherGames,
             otherDepth, otherConsumed, otherTree, lastOp>>

\* the object graph when pruneTree is followed object by object
VARIABLES
  heap,               \* the objects: nodes, children objects and games arrays
  node,               \* the address of the root passed to pruneTree
  prunedNode,         \* the address pruneTree returned last
  pruneArgs           \* the minGames of the calls made, latest last

heapVars == <<heap, node, prunedNode, pruneArgs>>

\* the App component and the games object store of chess-games-db
VARIABLES
  gamesStore,         \* the ids (key path) of the records of the store
  isDbInitialized,
  storedGameCount,
  progress,           \* a percentage; the code produces halves (50 + pct / 2),
                      \* so it is kept as twice its value
  fetch,              \* the handleFetchGames call in flight, if any
  save                \* the saveGames call in flight or returned, if any

appVars == <<gamesStore, isDbInitialized, storedGameCount, progress, fetch,
             save>>

vars == <<ctxVars, algVars, heapVars, codecVars, appVars>>

AlgIdle ==
  /\ inGames = <<>> /\ inDepth = 0 /\ consumed = 0 /\ tree = NoTree
  /\ prevTree = NoTree /\ otherGames = <<>> /\ otherDepth = 0
  /\ otherConsumed = 0 /\ otherTree = NoTree
  /\ lastOp = [op |-> "none", chunk |-> <<>>]

StoreSizes == {0, 1, MaxGames}

ApplyDepths == {2, DefaultMaxDepth}
ApplyMinGames == {2, DefaultMinGames}

Upto(n) == [i \in 1..n |-> i]

NoEvent == [op |-> "none", b |-> 0, started |-> FALSE, final |-> FALSE,
            saved |-> FALSE, pruned |-> FALSE]

\* processedTreeCopy at the end of a build: incrementalBuildTree applied to
\* chunk after chunk, each on the tree the chunk before returned
RECURSIVE BuiltInChunks(_, _, _)
BuiltInChunks(processedTreeCopy, gamesToProcess, depth) ==
  IF gamesToProcess = <<>> THEN processedTreeCopy
  ELSE LET endIdx == Min(chunkSize, Len(gamesToProcess))
           gamesChunk == SubSeq(gamesToProcess, 1, endIdx)
           next == incrementalBuildTree(processedTreeCopy, gamesChunk, depth)
       IN  IF Root \in DOMAIN next
           THEN BuiltInChunks(next, SubSeq(gamesToProcess, endIdx + 1,
                                           Len(gamesToProcess)), depth)
           ELSE next

\* what an earlier session over the same n games left in localStorage: after
\* its mount it applied minGames 2 twice, the second time rebuilding, and the
\* completion of that build saved the tree it pruned at 2
PriorTree(n) ==
  pruneTree(BuiltInChunks(InitialTree(n), Upto(n), DefaultMaxDepth), 2)

PriorPayload(n) ==
  [kind |-> "json", tree |-> PriorTree(n),
   metadata |-> [gameCount |-> n, maxDepth |-> DefaultMaxDepth,
                 minGames |-> 2, timestamp |-> 0, version |-> "1.0"]]

\* what an earlier session left that did nothing after its mount over n
\* games: the tree its first build pruned at the default threshold, saved
\* with the game count of the render saveTreeToStorage was created in
FirstTree(n) ==
  pruneTree(BuiltInChunks(InitialTree(n), Upto(n), DefaultMaxDepth),
            DefaultMinGames)

FirstPayload(n) ==
  [kind |-> "json", tree |-> FirstTree(n),
   metadata |-> [gameCount |-> 0, maxDepth |-> DefaultMaxDepth,
                 minGames |-> DefaultMinGames, timestamp |-> 0,
                 version |-> "1.0"]]

\* selectedNode = null
NoNode == [null |-> TRUE]

\* the node object at `at` of tree object obj
Ref(obj, at) == [obj |-> obj, at |-> at]

\* new Chess().fen()
StartPosition == Root

\* the {name, node} entries from the root of tree object obj down to `at`
Chain(obj, at) == [i \in 1..(Len(at) + 1) |-> Ref(obj, SubSeq(at, 1, i - 1))]

\* the search by FEN: the games here reach no position by two move orders,
\* so the node with the FEN targetFen is the one at that sequence of moves
findPathInTree(t, obj, targetFen) ==
  IF t = NoTree THEN <<>>
  ELSE IF targetFen \in DOMAIN t THEN Chain(obj, targetFen) ELSE <<>>

\* a test that goes by where the node sits instead of which object it is
isNodeInTreeByPlace(n, obj, t) ==
  ~(n = NoNode \/ t = NoTree) /\ n.at \in DOMAIN t

\* node === tree, or the same of one of tree's descendants
isNodeInTree(n, obj, t) ==
  IF n = NoNode \/ t = NoTree THEN FALSE
  ELSE n.obj = obj /\ n.at \in DOMAIN t

\* useState(null), useState(new Chess().fen()), useState([])
NothingSelected ==
  /\ objs = 0 /\ treeObj = 0 /\ selectedNode = NoNode
  /\ currentPosition = StartPosition /\ path = <<>>

\* setSelectedNode(t); setCurrentPosition(t.fen); setPath([{node: t}]) for
\* the root t of tree object obj
SelectRoot(obj) ==
  /\ selectedNode' = Ref(obj, Root)
  /\ currentPosition' = StartPosition
  /\ path' = Chain(obj, Root)

CtxInit ==
  /\ storeGames \in {Upto(n) : n \in StoreSizes}
  /\ stored \in {NoPayload, CorruptPayload, LegacyPayload(LegacyTree),
                 PriorPayload(MaxGames), FirstPayload(MaxGames)}
  /\ mounted = FALSE
  /\ games = <<>>
  /\ treeData = NoTree
  /\ treeAlias = 0
  /\ workingTreeData = 0
  /\ loading = TRUE
  /\ buildingInProgress = FALSE
  /\ maxDepth = DefaultMaxDepth
  /\ minGames = DefaultMinGames
  /\ processedGames = 0
  /\ treeMetadata = NullMeta
  /\ builds = <<>>
  /\ applies = 0
  /\ ev = NoEvent
  /\ NothingSelected

\* the context left unmounted, for the runs that exercise the tree functions
CtxIdle ==
  /\ storeGames = <<>> /\ stored = NoPayload /\ mounted = FALSE
  /\ games = <<>> /\ treeData = NoTree /\ treeAlias = 0
  /\ workingTreeData = 0 /\ loading = TRUE /\ buildingInProgress = FALSE
  /\ maxDepth = DefaultMaxDepth /\ minGames = DefaultMinGames
  /\ processedGames = 0 /\ treeMetadata = NullMeta /\ builds = <<>>
  /\ applies = 0 /\ ev = NoEvent
  /\ NothingSelected

HeapIdle == heap = <<>> /\ node = 0 /\ prunedNode = 0 /\ pruneArgs = <<>>

\* no handleFetchGames call in flight
NoFetch == [phase |-> "idle"]

\* no saveGames call made
NoSave == [phase |-> "none"]

\* the App component left unmounted
AppIdle ==
  /\ gamesStore = {} /\ isDbInitialized = FALSE /\ storedGameCount = 0
  /\ progress = 0 /\ fetch = NoFetch /\ save = NoSave

CodecIdle ==
  /\ now = 1
  /\ givenMetadata = NullMeta
  /\ payload = NoPayload
  /\ decoded = [ok |-> FALSE]
  /\ current = [games |-> 0, maxDepth |-> 0, minGames |-> 0]
  /\ rebuild = FALSE

Init == CtxInit /\ AppIdle /\ AlgIdle /\ HeapIdle /\ CodecIdle

\* the closure a startTreeBuilding call creates: its arguments, the locals
\* processedTreeCopy and processed, the index of the next chunk, and the
\* state saveTreeToStorage sees (that of the render the call was made from);
\* steps, prunes and saves count its processChunk, pruneTree and
\* saveTreeToStorage calls
NewBuild(gamesToProcess, initialTree, depth, minGameCount, cap) ==
  [games |-> gamesToProcess, depth |-> depth, minGameCount |-> minGameCount,
   cap |-> cap, tree |-> initialTree, processed |-> 0, next |-> 0,
   pending |-> FALSE, done |-> FALSE, steps |-> 0, prunes |-> 0,
   saves |-> 0]

\* processChunk(startIdx) of build B up to the scheduling decision
ChunkOf(B) ==
  LET endIdx == Min(B.next + chunkSize, Len(B.games)) IN
  SubSeq(B.games, B.next + 1, endIdx)

\* a chunk that marks the build finished one game early
AfterChunkOneShort(B) ==
  LET endIdx == Min(B.next + chunkSize, Len(B.games))
      more   == endIdx + 1 < Len(B.games)
  IN  [B EXCEPT !.tree = incrementalBuildTree(B.tree, ChunkOf(B), B.depth),
                !.processed = @ + Len(ChunkOf(B)),
                !.next = endIdx,
                !.pending = more,
                !.done = ~more,
                !.steps = @ + 1,
                !.prunes = IF more THEN @ ELSE @ + 1,
                !.saves = IF more THEN @ ELSE @ + 1]

\* a chunk that starts again one game before the end of the chunk before
AfterChunkOverlapping(B) ==
  LET endIdx == Min(B.next + chunkSize, Len(B.games))
      more   == endIdx < Len(B.games)
      startIdx == IF B.next > 0 THEN B.next - 1 ELSE 0
  IN  [B EXCEPT !.tree = incrementalBuildTree(B.tree,
                            SubSeq(B.games, startIdx + 1, endIdx), B.depth),
                !.processed = @ + (endIdx - startIdx),
                !.next = endIdx,
                !.pending = more,
                !.done = ~more,
                !.steps = @ + 1,
                !.prunes = IF more THEN @ ELSE @ + 1,
                !.saves = IF more THEN @ ELSE @ + 1]

AfterChunk(B) ==
  LET endIdx == Min(B.next + chunkSize, Len(B.games))
      more   == endIdx < Len(B.games)
  IN  [B EXCEPT !.tree = incrementalBuildTree(B.tree, ChunkOf(B), B.depth),
                !.processed = @ + Len(ChunkOf(B)),
                !.next = endIdx,
                !.pending = more,
                !.done = ~more,
                !.steps = @ + 1,
                !.prunes = IF more THEN @ ELSE @ + 1,
                !.saves = IF more THEN @ ELSE @ + 1]

\* what processChunk does to the selection: B1 is the build after the chunk,
\* n, tdObj, sel, pos and pth what the handler has already made of objs,
\* treeObj, selectedNode, currentPosition and path. The selectedNode it
\* looks at is that of the render startTreeBuilding was created in.
chunkSelection(B1, n, tdObj, sel, pos, pth) ==
  LET closed == B1.cap.selectedNode
      prunedTree == pruneTree(B1.tree, B1.minGameCount)
      currentPath == IF closed = NoNode THEN <<>>
                     ELSE findPathInTree(B1.tree, B1.obj, closed.at)
      finalPath == IF closed = NoNode THEN <<>>
                   ELSE findPathInTree(prunedTree, n + 1, closed.at)
  IN  IF B1.done
      THEN /\ objs' = n + 1
           /\ treeObj' = n + 1
           /\ IF finalPath # <<>>
              THEN /\ selectedNode' = finalPath[Len(finalPath)]
                   /\ currentPosition' = closed.at
                   /\ path' = finalPath
              ELSE SelectRoot(n + 1)
      ELSE /\ treeObj' = tdObj
           /\ currentPosition' = pos
           /\ path' = pth
           /\ IF B1.processed % snapshotEvery = 0 /\ currentPath # <<>>
              THEN IF closed.at = Root
                   THEN objs' = n + 1 /\ selectedNode' = Ref(n + 1, Root)
                   ELSE objs' = n /\ selectedNode' = Ref(B1.obj, closed.at)
              ELSE objs' = n /\ selectedNode' = sel

\* processChunk of build b, run in a state where the builds are bs and the
\* handler has already set treeData, treeAlias, workingTreeData and
\* buildingInProgress to td, alias, wtd and bip, and the selection as
\* chunkSelection takes it
processChunk(b, bs, td, alias, wtd, bip, op, started, n, tdObj, sel, pos, pth) ==
  LET B1 == AfterChunk(bs[b])
      prunedTree == pruneTree(B1.tree, B1.minGameCount)
      newMetadata == [gameCount |-> Len(B1.games), maxDepth |-> B1.depth,
                      minGames |-> B1.minGameCount, timestamp |-> now]
  IN  /\ builds' = [bs EXCEPT ![b] = B1]
      /\ chunkSelection(B1, n, tdObj, sel, pos, pth)
      /\ processedGames' = B1.processed
      /\ IF B1.done
         THEN /\ treeData' = prunedTree
              /\ treeAlias' = 0
              /\ workingTreeData' = 0
              /\ treeMetadata' = newMetadata
              /\ stored' = saveTreeToStorage(prunedTree, newMetadata, B1.cap)
              /\ buildingInProgress' = FALSE
         ELSE /\ treeData' = IF alias = b THEN B1.tree ELSE td
              /\ treeAlias' = alias
              /\ workingTreeData' =
                   IF B1.processed % snapshotEvery = 0 THEN b ELSE wtd
              /\ treeMetadata' = treeMetadata
              /\ stored' = stored
              /\ buildingInProgress' = bip
      /\ ev' = [op |-> op, b |-> b, started |-> started, final |-> B1.done,
                saved |-> B1.done, pruned |-> B1.done]

\* startTreeBuilding, called after the caller created initialTree, published
\* it and selected its root
startTreeBuilding(gamesToProcess, initialTree, depth, minGameCount, cap, op) ==
  LET b  == Len(builds) + 1
      obj == objs + 1
      bs == Append(builds, [obj |-> obj] @@
                           NewBuild(gamesToProcess, initialTree, depth,
                                    minGameCount, cap))
  IN  processChunk(b, bs, initialTree, b, b, TRUE, op, TRUE,
                   obj, obj, Ref(obj, Root), StartPosition, Chain(obj, Root))

\* buildInitialTree, as closed over the first render
buildInitialTree(loadedGames, op) ==
  startTreeBuilding(loadedGames, InitialTree(Len(loadedGames)),
                    DefaultMaxDepth, DefaultMinGames,
                    [gameCount |-> 0, maxDepth |-> DefaultMaxDepth,
                     minGames |-> DefaultMinGames, selectedNode |-> NoNode],
                    op)

\* metadata of a payload that has none
LegacyMetadata == [timestamp |-> now, version |-> "0.9", isLegacyFormat |-> TRUE]

\* a decoder that hands what JSON.parse rejects on as a bare tree
deserializeTreeKeepsCorrupt(serializedData) ==
  IF serializedData.kind = "none" THEN [ok |-> FALSE]
  ELSE [ok |-> TRUE, tree |-> serializedData, metadata |-> LegacyMetadata]

\* ok = FALSE: null was returned. A payload the new format wrote with a null
\* tree fails the test parsed.tree && parsed.metadata and is taken for a bare
\* tree itself; the bare payload "null" makes parsed.tree throw.
deserializeTree(serializedData) ==
  IF serializedData.kind \in {"none", "corrupt"} THEN [ok |-> FALSE]
  ELSE IF serializedData.kind = "json"
  THEN IF serializedData.tree # NoTree
       THEN [ok |-> TRUE, tree |-> serializedData.tree,
             metadata |-> serializedData.metadata]
       ELSE [ok |-> TRUE,
             tree |-> [tree |-> NoTree, metadata |-> serializedData.metadata],
             metadata |-> LegacyMetadata]
  ELSE IF serializedData.tree = NoTree THEN [ok |-> FALSE]
  ELSE [ok |-> TRUE, tree |-> serializedData.tree, metadata |-> LegacyMetadata]

Has(metadata, field) == field \in DOMAIN metadata

\* a rebuild test that tolerates a game count off by one
shouldRebuildTreeTolerant(metadata, currentGames, currentMaxDepth, currentMinGames) ==
  IF metadata = NullMeta THEN TRUE
  ELSE LET gameCount == IF Has(metadata, "gameCount")
                        THEN metadata.gameCount ELSE 0
           gameCountDiff == IF gameCount > Len(currentGames)
                            THEN gameCount - Len(currentGames)
                            ELSE Len(currentGames) - gameCount
       IN  \/ gameCountDiff > 1
           \/ Has(metadata, "maxDepth") /\ metadata.maxDepth < currentMaxDepth
           \/ Has(metadata, "minGames") /\ metadata.minGames > currentMinGames
           \/ ~Has(metadata, "gameCount")
           \/ ~Has(metadata, "maxDepth")
           \/ ~Has(metadata, "minGames")

\* a rebuild test that takes a missing field for an unchanged one
shouldRebuildTreeTrusting(metadata, currentGames, currentMaxDepth, currentMinGames) ==
  IF metadata = NullMeta THEN TRUE
  ELSE LET gameCount == IF Has(metadata, "gameCount")
                        THEN metadata.gameCount ELSE 0
       IN  \/ gameCount # Len(currentGames)
           \/ Has(metadata, "maxDepth") /\ metadata.maxDepth < currentMaxDepth
           \/ Has(metadata, "minGames") /\ metadata.minGames > currentMinGames

shouldRebuildTree(metadata, currentGames, currentMaxDepth, currentMinGames) ==
  IF metadata = NullMeta THEN TRUE
  ELSE LET gameCount == IF Has(metadata, "gameCount")
                        THEN metadata.gameCount ELSE 0
           gameCountChanged == gameCount # Len(currentGames)
           paramsChanged ==
             \/ Has(metadata, "maxDepth") /\ metadata.maxDepth < currentMaxDepth
             \/ Has(metadata, "minGames") /\ metadata.minGames > currentMinGames
           isIncompleteMetadata ==
             \/ ~Has(metadata, "gameCount")
             \/ ~Has(metadata, "maxDepth")
             \/ ~Has(metadata, "minGames")
       IN  gameCountChanged \/ paramsChanged \/ isIncompleteMetadata

\* a handler that removes the stored payload when it builds nothing
NothingBuiltStorageCleared(op) ==
  /\ UNCHANGED <<builds, processedGames, treeAlias, workingTreeData,
                 buildingInProgress>>
  /\ stored' = NoPayload
  /\ ev' = [NoEvent EXCEPT !.op = op]

NothingBuilt(op) ==
  /\ UNCHANGED <<builds, processedGames, treeAlias, workingTreeData,
                 stored, buildingInProgress>>
  /\ ev' = [NoEvent EXCEPT !.op = op]

\* the mount effect: loadGamesAndTree from the await on
Load ==
  /\ ~mounted
  /\ UNCHANGED algVars
  /\ UNCHANGED <<heapVars, codecVars, appVars>>
  /\ mounted' = TRUE
  /\ games' = storeGames
  /\ loading' = FALSE
  /\ UNCHANGED <<storeGames, maxDepth, minGames, applies>>
  /\ LET loadedGames == storeGames
         result == deserializeTree(stored)
         build == /\ Len(loadedGames) > 0
                  /\ Len(builds) < MaxBuilds
                  /\ buildInitialTree(loadedGames, "load")
         nothing == /\ Len(loadedGames) = 0
                    /\ UNCHANGED <<treeData, treeMetadata>>
                    /\ UNCHANGED <<objs, treeObj, selectedNode,
                                   currentPosition, path>>
                    /\ NothingBuilt("load")
     IN  IF stored # NoPayload
         THEN IF result.ok /\ result.tree # NoTree
              THEN IF shouldRebuildTree(result.metadata, loadedGames,
                                        DefaultMaxDepth, DefaultMinGames)
                   THEN build \/ nothing
                   ELSE /\ treeData' = result.tree
                        /\ treeMetadata' = result.metadata
                        /\ objs' = objs + 1
                        /\ treeObj' = objs + 1
                        /\ SelectRoot(objs + 1)
                        /\ NothingBuilt("load")
              ELSE build \/ nothing
         ELSE build \/ nothing

handleApplyParameters(newMaxDepth, newMinGames) ==
  /\ applies < MaxApplies
  /\ UNCHANGED algVars
  /\ UNCHANGED <<heapVars, codecVars, appVars>>
  /\ applies' = applies + 1
  /\ maxDepth' = newMaxDepth
  /\ minGames' = newMinGames
  /\ UNCHANGED <<storeGames, mounted, games, loading>>
  /\ IF Len(games) > 0
     THEN IF treeData # NoTree /\ newMaxDepth <= maxDepth
                               /\ newMinGames # minGames
          THEN LET prunedTree == pruneTree(treeData, newMinGames)
                   updatedMetadata == Assign(Spread(treeMetadata),
                                             [minGames |-> newMinGames,
                                              timestamp |-> now])
               IN  /\ treeData' = prunedTree
                   /\ treeAlias' = 0
                   /\ treeMetadata' = updatedMetadata
                   /\ stored' = saveTreeToStorage(prunedTree, updatedMetadata,
                                   [gameCount |-> Len(games),
                                    maxDepth |-> maxDepth,
                                    minGames |-> minGames])
                   /\ objs' = objs + 1
                   /\ treeObj' = objs + 1
                   /\ IF ~isNodeInTree(selectedNode, objs + 1, prunedTree)
                      THEN SelectRoot(objs + 1)
                      ELSE UNCHANGED <<selectedNode, currentPosition, path>>
                   /\ UNCHANGED <<builds, processedGames, workingTreeData,
                                  buildingInProgress>>
                   /\ ev' = [NoEvent EXCEPT !.op = "apply", !.saved = TRUE,
                                            !.pruned = TRUE]
          ELSE /\ Len(builds) < MaxBuilds
               /\ startTreeBuilding(games, InitialTree(Len(games)),
                                    newMaxDepth, newMinGames,
                                    [gameCount |-> Len(games),
                                     maxDepth |-> maxDepth,
                                     minGames |-> minGames,
                                     selectedNode |-> selectedNode], "apply")
     ELSE /\ UNCHANGED <<treeData, treeMetadata>>
          /\ UNCHANGED <<objs, treeObj, selectedNode, currentPosition, path>>
          /\ NothingBuilt("apply")

ApplyParameters ==
  \E newMaxDepth \in ApplyDepths, newMinGames \in ApplyMinGames :
    handleApplyParameters(newMaxDepth, newMinGames)

\* the timer callback () => processChunk(endIdx) of build b
TimerFires(b) ==
  /\ builds[b].pending
  /\ UNCHANGED algVars
  /\ UNCHANGED <<heapVars, codecVars, appVars>>
  /\ processChunk(b, builds, treeData, treeAlias, workingTreeData,
                  buildingInProgress, "chunk", FALSE,
                  objs, treeObj, selectedNode, currentPosition, path)
  /\ UNCHANGED <<storeGames, mounted, games, loading, maxDepth, minGames,
                 applies>>

Timer == \E b \in DOMAIN builds : TimerFires(b)

Next == Load \/ ApplyParameters \/ Timer

\* an Apply button that is never disabled
ApplyNeverDisabled == ApplyParameters

\* the Apply button of TreeControls: disabled={buildingInProgress}
ApplyClicked == ~buildingInProgress /\ ApplyParameters

UiNext == Load \/ ApplyClicked \/ Timer

\* the context driven through TreeControls only
UiSpec == Init /\ [][UiNext]_vars

Spec == Init /\ [][Next]_vars

\* setTimeout(() => processChunk(endIdx), 5): a scheduled callback is run.
\* This is weak fairness of each build's timer callback, WF_vars(TimerFires(b)),
\* written out with ENABLED <<TimerFires(b)>>_vars replaced by what it
\* amounts to, the build having a callback scheduled.
TimerScheduled(b) == b \in DOMAIN builds /\ builds[b].pending

TimerRuns(b) ==
  \/ []<>(~TimerScheduled(b))
  \/ []<><<TimerScheduled(b) /\ TimerFires(b)>>_vars

FairSpec == Spec /\ \A b \in 1..MaxBuilds : TimerRuns(b)

-----------------------------------------------------------------------------
(* The builder applied to a list of games, chunk by chunk *)

NumIds == 6         \* game ids 1..NumIds, one of each kind of Game
MaxLen == 3         \* longest game list
MaxTreeDepth == 3   \* largest maxDepth tried

GameLists(n) == UNION {[1..k -> 1..NumIds] : k \in 1..n}

BuildInit ==
  /\ CtxIdle /\ AppIdle /\ HeapIdle /\ CodecIdle
  /\ inGames \in GameLists(MaxLen)
  /\ inDepth \in 0..MaxTreeDepth
  /\ consumed = 0
  /\ tree = InitialTree(Len(inGames))
  /\ prevTree = NoTree
  /\ otherGames = <<>> /\ otherDepth = 0 /\ otherConsumed = 0
  /\ otherTree = NoTree
  /\ lastOp = [op |-> "none", chunk |-> <<>>]

\* processedTreeCopy = incrementalBuildTree(processedTreeCopy, gamesChunk, depth)
\* on the next k games
ExtendStep(k) ==
  /\ lastOp.op # "again"
  /\ UNCHANGED ctxVars
  /\ UNCHANGED <<heapVars, codecVars, appVars>>
  /\ consumed + k <= Len(inGames)
  /\ LET gamesChunk == SubSeq(inGames, consumed + 1, consumed + k) IN
       /\ tree' = incrementalBuildTree(tree, gamesChunk, inDepth)
       /\ lastOp' = [op |-> "extend", chunk |-> gamesChunk]
  /\ prevTree' = tree
  /\ consumed' = consumed + k
  /\ UNCHANGED <<inGames, inDepth, otherGames, otherDepth, otherConsumed,
                 otherTree>>

Extend == \E k \in 1..MaxLen : ExtendStep(k)

\* incrementalBuildTree called once more with the chunk just added
ExtendAgain ==
  /\ lastOp.op = "extend"
  /\ UNCHANGED ctxVars
  /\ UNCHANGED <<heapVars, codecVars, appVars>>
  /\ tree' = incrementalBuildTree(tree, lastOp.chunk, inDepth)
  /\ prevTree' = tree
  /\ lastOp' = [lastOp EXCEPT !.op = "again"]
  /\ UNCHANGED <<inGames, inDepth, consumed, otherGames, otherDepth,
                 otherConsumed, otherTree>>

BuildNext == Extend \/ ExtendAgain

BuildSpec == BuildInit /\ [][BuildNext]_vars

-----------------------------------------------------------------------------
(* The tree functions applied in any order: a tree being built from inGames *)
(* is pruned and merged with a second tree, built from otherGames           *)

MaxMergeLen == 2    \* longest game list of the two trees

MergeIds == {1, 2, 3, 4}
MergeDepths == {1, 3}
PruneThresholds == {2, 3}

MergeLists == UNION {[1..k -> MergeIds] : k \in 1..MaxMergeLen}

TreeInit ==
  /\ CtxIdle /\ AppIdle /\ HeapIdle /\ CodecIdle
  /\ inGames \in MergeLists
  /\ inDepth \in MergeDepths
  /\ consumed = 0
  /\ tree = InitialTree(Len(inGames))
  /\ prevTree = NoTree
  /\ otherGames \in MergeLists
  /\ otherDepth \in MergeDepths
  /\ otherConsumed = Len(otherGames)
  /\ otherTree = incrementalBuildTree(InitialTree(Len(otherGames)),
                                      otherGames, otherDepth)
  /\ lastOp = [op |-> "none", chunk |-> <<>>]

PruneTo(m) ==
  /\ tree' = pruneTree(tree, m)
  /\ prevTree' = tree
  /\ lastOp' = [op |-> "prune", chunk |-> <<>>]
  /\ UNCHANGED ctxVars
  /\ UNCHANGED <<heapVars, codecVars, appVars>>
  /\ UNCHANGED <<inGames, inDepth, consumed, otherGames, otherDepth,
                 otherConsumed, otherTree>>

Prune == \E m \in PruneThresholds : PruneTo(m)

\* tree = mergeTrees(tree, otherTree)
Merge ==
  /\ tree' = mergeTrees(tree, otherTree)
  /\ prevTree' = tree
  /\ lastOp' = [op |-> "merge", chunk |-> <<>>]
  /\ UNCHANGED ctxVars
  /\ UNCHANGED <<heapVars, codecVars, appVars>>
  /\ UNCHANGED <<inGames, inDepth, consumed, otherGames, otherDepth,
                 otherConsumed, otherTree>>

\* otherTree = mergeTrees(otherTree, tree)
MergeInto ==
  /\ otherTree' = mergeTrees(otherTree, tree)
  /\ prevTree' = otherTree
  /\ lastOp' = [op |-> "mergeInto", chunk |-> <<>>]
  /\ UNCHANGED ctxVars
  /\ UNCHANGED <<heapVars, codecVars, appVars>>
  /\ UNCHANGED <<inGames, inDepth, consumed, tree, otherGames, otherDepth,
                 otherConsumed>>

TreeNext == Extend \/ Prune \/ Merge \/ MergeInto

TreeSpec == TreeInit /\ [][TreeNext]_vars

-----------------------------------------------------------------------------
(* incrementalBuildTree with a maxDepth that may be negative *)

DepthInit ==
  /\ CtxIdle /\ AppIdle /\ HeapIdle /\ CodecIdle
  /\ inGames \in GameLists(MaxLen)
  /\ inDepth \in -1..MaxTreeDepth
  /\ consumed = 0
  /\ tree = InitialTree(Len(inGames))
  /\ prevTree = NoTree
  /\ otherGames = <<>> /\ otherDepth = 0 /\ otherConsumed = 0
  /\ otherTree = NoTree
  /\ lastOp = [op |-> "none", chunk |-> <<>>]

DepthSpec == DepthInit /\ [][BuildNext]_vars

-----------------------------------------------------------------------------
(* pruneTree applied to a tree under construction, to its own results and   *)
(* to the tree merged with a build of the same games at another maxDepth    *)

MaxThreshold == 3   \* largest minGames a tree is pruned at

Thresholds == 0..MaxThreshold

PruneInit ==
  /\ CtxIdle /\ AppIdle /\ HeapIdle /\ CodecIdle
  /\ inGames \in MergeLists
  /\ inDepth \in MergeDepths
  /\ consumed = 0
  /\ tree = InitialTree(Len(inGames))
  /\ prevTree = NoTree
  /\ otherGames = inGames
  /\ otherDepth \in MergeDepths
  /\ otherConsumed = Len(otherGames)
  /\ otherTree = incrementalBuildTree(InitialTree(Len(otherGames)),
                                      otherGames, otherDepth)
  /\ lastOp = [op |-> "none", chunk |-> <<>>]

PruneAt == \E m \in Thresholds : PruneTo(m)

PruneNext == Extend \/ PruneAt \/ Merge

PruneSpec == PruneInit /\ [][PruneNext]_vars

-----------------------------------------------------------------------------
(* pruneTree followed object by object. The heap is the sequence of the     *)
(* objects allocated so far and an address is an index into it (0: null).   *)
(* A node object holds its frequency and the addresses of its games array   *)
(* and of its children object; a children object maps move keys to nodes.   *)

MaxPrunes == 2      \* pruneTree calls on one tree

\* the objects of the tree t below and including path p, children first
RECURSIVE AllocNode(_, _, _)
RECURSIVE AllocChildren(_, _, _, _)
AllocChildren(h, t, paths, entries) ==
  IF paths = {} THEN [heap |-> h, entries |-> entries]
  ELSE LET c == CHOOSE q \in paths : TRUE
           r == AllocNode(h, t, c)
       IN  AllocChildren(r.heap, t, paths \ {c},
                         (c[Len(c)] :> r.node) @@ entries)

AllocNode(h, t, p) ==
  LET r  == AllocChildren(h, t, Children(t, p), <<>>)
      h1 == Append(r.heap, [kind |-> "array", items |-> t[p].games])
      h2 == Append(h1, [kind |-> "children", entries |-> r.entries])
      h3 == Append(h2, [kind |-> "node", frequency |-> t[p].frequency,
                        games |-> Len(h1), children |-> Len(h2)])
  IN  [heap |-> h3, node |-> Len(h3)]

\* the paths of the nodes reachable from the node at address a, with their
\* addresses
RECURSIVE NodesFrom(_, _, _)
NodesFrom(h, a, p) ==
  LET entries == h[h[a].children].entries IN
  {<<p, a>>} \cup
  UNION {NodesFrom(h, entries[k], Append(p, k)) : k \in DOMAIN entries}

\* the tree that the node at address a is the root of
TreeAt(h, a) ==
  LET nodes == NodesFrom(h, a, Root) IN
  [p \in {x[1] : x \in nodes} |->
     LET b == (CHOOSE x \in nodes : x[1] = p)[2] IN
     [games |-> h[h[b].games].items, frequency |-> h[b].frequency]]

\* delete obj[key]
Without(entries, key) == [k \in DOMAIN entries \ {key} |-> entries[k]]

\* children sharing the input's children object instead of copying it
ShareChildren(h, a) == h

\* prunedNode.children = {...prunedNode.children}
CopyChildren(h, a) ==
  LET h1 == Append(h, h[h[a].children]) IN
  [h1 EXCEPT ![a].children = Len(h1)]

RECURSIVE pruneNode(_, _, _)
RECURSIVE PruneKeys(_, _, _, _)
\* the forEach over Object.keys(prunedNode.children), a being prunedNode
PruneKeys(h, a, keys, m) ==
  IF keys = {} THEN h
  ELSE LET key == CHOOSE k \in keys : TRUE
           c   == h[a].children
           child == h[c].entries[key]
       IN  IF h[child].frequency < m
           THEN PruneKeys([h EXCEPT ![c].entries = Without(@, key)],
                          a, keys \ {key}, m)
           ELSE LET r == pruneNode(h, child, m) IN
                PruneKeys([r.heap EXCEPT ![c].entries[key] = r.node],
                          a, keys \ {key}, m)

\* pruneTree(node, minGames) on the heap h: the heap afterwards and the
\* address returned
pruneNode(h, a, m) ==
  IF a = 0 THEN [heap |-> h, node |-> 0]
  ELSE LET h1 == Append(h, h[a])          \* prunedNode = {...node}
           pa == Len(h1)
           h2 == CopyChildren(h1, pa)
       IN  [heap |-> PruneKeys(h2, pa, DOMAIN h2[h2[pa].children].entries, m),
            node |-> pa]

HeapInit ==
  /\ CtxIdle /\ AppIdle /\ CodecIdle
  /\ inGames \in MergeLists
  /\ inDepth \in MergeDepths
  /\ consumed = Len(inGames)
  /\ tree = incrementalBuildTree(InitialTree(Len(inGames)), inGames, inDepth)
  /\ prevTree = NoTree
  /\ otherGames = <<>> /\ otherDepth = 0 /\ otherConsumed = 0
  /\ otherTree = NoTree
  /\ lastOp = [op |-> "none", chunk |-> <<>>]
  /\ LET r == AllocNode(<<>>, tree, Root) IN heap = r.heap /\ node = r.node
  /\ prunedNode = 0
  /\ pruneArgs = <<>>

\* prunedNode = pruneTree(node, m)
PruneOnHeap(m) ==
  /\ Len(pruneArgs) < MaxPrunes
  /\ LET r == pruneNode(heap, node, m) IN
       heap' = r.heap /\ prunedNode' = r.node
  /\ pruneArgs' = Append(pruneArgs, m)
  /\ UNCHANGED <<node, ctxVars, algVars, codecVars, appVars>>

HeapNext == \E m \in Thresholds : PruneOnHeap(m)

HeapSpec == HeapInit /\ [][HeapNext]_vars

-----------------------------------------------------------------------------
(* mergeTrees applied to two trees that buildVariationTree built, unpruned, *)
(* with one maxDepth                                                        *)

\* e4 e5, e4 c5, d4 d5 c4 and a game whose PGN does not parse
GameKinds == {1, 2, 4, 5}

KindLists == UNION {[1..k -> GameKinds] : k \in 0..MaxMergeLen}

MergeInit ==
  /\ CtxIdle /\ AppIdle /\ HeapIdle /\ CodecIdle
  /\ inGames \in KindLists
  /\ otherGames \in KindLists
  /\ inDepth \in MergeDepths
  /\ otherDepth = inDepth
  /\ consumed = Len(inGames)
  /\ otherConsumed = Len(otherGames)
  /\ tree = buildVariationTree(inGames, inDepth, 1)
  /\ otherTree = buildVariationTree(otherGames, otherDepth, 1)
  /\ prevTree = NoTree
  /\ lastOp = [op |-> "none", chunk |-> <<>>]

MergeNext == Merge \/ MergeInto

MergeSpec == MergeInit /\ [][MergeNext]_vars

-----------------------------------------------------------------------------
(* serializeTree and deserializeTree called on their own, the clock running *)

MaxNow == 2         \* latest reading of the clock

Absent == -1        \* marks a field a metadata object does not have

RecordedCounts == {Absent, 0, 1, 100}
RecordedDepths == {Absent, 5, 10}
RecordedMinGames == {Absent, 2, 15}

\* a metadata object with the fields given, stamped as serializeTree and
\* saveTreeToStorage stamp it or not
MakeMetadata(gameCount, depth, minGameCount, stamped) ==
  (IF gameCount = Absent THEN <<>> ELSE [gameCount |-> gameCount]) @@
  (IF depth = Absent THEN <<>> ELSE [maxDepth |-> depth]) @@
  (IF minGameCount = Absent THEN <<>> ELSE [minGames |-> minGameCount]) @@
  (IF stamped THEN [timestamp |-> 1, version |-> "1.0"] ELSE <<>>)

Metadatas ==
  {NullMeta} \cup
  {MakeMetadata(c, d, m, s) : c \in RecordedCounts, d \in RecordedDepths,
                              m \in RecordedMinGames, s \in BOOLEAN}

CodecTrees ==
  {incrementalBuildTree(InitialTree(Len(gs)), gs, 2) : gs \in {<<1>>, <<1, 2>>}}

CodecInit ==
  /\ CtxIdle /\ AppIdle /\ HeapIdle
  /\ inGames = <<>> /\ inDepth = 0 /\ consumed = 0
  /\ tree \in CodecTrees
  /\ prevTree = NoTree /\ otherGames = <<>> /\ otherDepth = 0
  /\ otherConsumed = 0 /\ otherTree = NoTree
  /\ lastOp = [op |-> "none", chunk |-> <<>>]
  /\ now = 1
  /\ givenMetadata \in Metadatas
  /\ payload \in {NoPayload, CorruptPayload, LegacyPayload(tree)}
  /\ decoded = [ok |-> FALSE]
  /\ current = [games |-> 0, maxDepth |-> 0, minGames |-> 0]
  /\ rebuild = FALSE

\* payload = serializeTree(tree, givenMetadata)
Serialize ==
  /\ payload' = serializeTree(tree, givenMetadata)
  /\ lastOp' = [op |-> "serialize", chunk |-> <<>>]
  /\ UNCHANGED <<now, givenMetadata, decoded, current, rebuild>>
  /\ UNCHANGED <<inGames, inDepth, consumed, tree, prevTree, otherGames,
                 otherDepth, otherConsumed, otherTree>>
  /\ UNCHANGED <<ctxVars, heapVars, appVars>>

\* decoded = deserializeTree(payload)
Deserialize ==
  /\ decoded' = deserializeTree(payload)
  /\ lastOp' = [op |-> "deserialize", chunk |-> <<>>]
  /\ UNCHANGED <<now, givenMetadata, payload, current, rebuild>>
  /\ UNCHANGED <<inGames, inDepth, consumed, tree, prevTree, otherGames,
                 otherDepth, otherConsumed, otherTree>>
  /\ UNCHANGED <<ctxVars, heapVars, appVars>>

\* time passes
Tick ==
  /\ now < MaxNow
  /\ now' = now + 1
  /\ UNCHANGED <<givenMetadata, payload, decoded, current, rebuild>>
  /\ UNCHANGED <<ctxVars, algVars, heapVars, appVars>>

CodecNext == Serialize \/ Deserialize \/ Tick

CodecSpec == CodecInit /\ [][CodecNext]_vars

-----------------------------------------------------------------------------
(* shouldRebuildTree called on its own *)

CurrentCounts == {0, 1, 100, 101}
CurrentDepths == {5, 10}
CurrentMinGames == {2, 15}

RebuildInit ==
  /\ CtxIdle /\ AppIdle /\ HeapIdle /\ AlgIdle
  /\ now = 1
  /\ givenMetadata \in Metadatas \cup {LegacyMetadata}
  /\ payload = NoPayload
  /\ decoded = [ok |-> FALSE]
  /\ current = [games |-> 0, maxDepth |-> 0, minGames |-> 0]
  /\ rebuild = FALSE

\* rebuild = shouldRebuildTree(givenMetadata, currentGames, d, m) for a
\* currentGames of n games
CheckRebuild(n, d, m) ==
  /\ current' = [games |-> n, maxDepth |-> d, minGames |-> m]
  /\ rebuild' = shouldRebuildTree(givenMetadata, Upto(n), d, m)
  /\ lastOp' = [op |-> "rebuild", chunk |-> <<>>]
  /\ UNCHANGED <<now, givenMetadata, payload, decoded>>
  /\ UNCHANGED <<inGames, inDepth, consumed, tree, prevTree, otherGames,
                 otherDepth, otherConsumed, otherTree>>
  /\ UNCHANGED <<ctxVars, heapVars, appVars>>

RebuildNext ==
  \E n \in CurrentCounts, d \in CurrentDepths, m \in CurrentMinGames :
    CheckRebuild(n, d, m)

RebuildSpec == RebuildInit /\ [][RebuildNext]_vars

-----------------------------------------------------------------------------
(* Moving about the tree (ChessVariationTree) *)

\* the keys a children object can have, and one no game plays
MoveKeys == {"e2e4", "e7e5", "c7c5", "d2d4", "d7d5", "c2c4", "g1f3"}

\* the breadcrumb indexes a click can carry
MaxIndex == 3

\* the tree a tree object holds now: the published one, or the working tree
\* of the build made from it
ObjTree(obj) ==
  IF obj # 0 /\ obj = treeObj THEN treeData
  ELSE IF \E b \in DOMAIN builds : builds[b].obj = obj
       THEN builds[CHOOSE b \in DOMAIN builds : builds[b].obj = obj].tree
       ELSE NoTree

\* node.children[moveKey]
HasChild(n, moveKey) ==
  /\ n # NoNode
  /\ ObjTree(n.obj) # NoTree
  /\ Append(n.at, moveKey) \in DOMAIN ObjTree(n.obj)

\* the handlers below touch the selection only
Moved ==
  /\ UNCHANGED <<algVars, heapVars, codecVars, appVars>>
  /\ UNCHANGED <<storeGames, stored, mounted, games, treeData, treeAlias,
                 workingTreeData, loading, buildingInProgress, maxDepth,
                 minGames, processedGames, treeMetadata, builds, applies,
                 objs, treeObj>>
  /\ ev' = [NoEvent EXCEPT !.op = "move"]

handleMoveSelect(moveKey) ==
  /\ mounted
  /\ IF HasChild(selectedNode, moveKey)
     THEN LET newNode == Ref(selectedNode.obj, Append(selectedNode.at, moveKey))
          IN  /\ selectedNode' = newNode
              /\ currentPosition' = newNode.at
              /\ path' = Append(path, newNode)
     ELSE UNCHANGED <<selectedNode, currentPosition, path>>
  /\ Moved

\* index counts from 0
navigateToPathNode(index) ==
  /\ mounted
  /\ IF index + 1 \in DOMAIN path
     THEN LET pathNode == path[index + 1]
          IN  /\ selectedNode' = pathNode
              /\ currentPosition' = pathNode.at
              /\ path' = SubSeq(path, 1, index + 1)
     ELSE UNCHANGED <<selectedNode, currentPosition, path>>
  /\ Moved

handleUndo ==
  /\ mounted
  /\ IF Len(path) > 1
     THEN LET newPath == SubSeq(path, 1, Len(path) - 1)
              lastNode == newPath[Len(newPath)]
          IN  /\ selectedNode' = lastNode
              /\ currentPosition' = lastNode.at
              /\ path' = newPath
     ELSE UNCHANGED <<selectedNode, currentPosition, path>>
  /\ Moved

MoveSelect == \E moveKey \in MoveKeys : handleMoveSelect(moveKey)

NavigateToPathNode == \E index \in 0..MaxIndex : navigateToPathNode(index)

NavNext == UiNext \/ MoveSelect \/ NavigateToPathNode \/ handleUndo

\* a full Game Store, with the tree of an earlier session stored or nothing
\* stored: the sessions in which the tree has nodes to move to
NavInit ==
  /\ Init
  /\ Len(storeGames) = MaxGames
  /\ stored \in {NoPayload, PriorPayload(MaxGames)}

\* the context driven through TreeControls and the variation explorer
NavSpec == NavInit /\ [][NavNext]_vars

-----------------------------------------------------------------------------
(* The Game Store and the App component *)

BATCH_SIZE == 20

\* the most games one saveGames call is given
MaxSaved == 41

\* the most Chess.com accounts entered
MaxAccounts == 1

\* storedGameCount up to which Fetch is pressed again
MaxShown == 1

\* a percentage as progress holds it
Percent(p) == 2 * p

\* Math.round(a / b * 100) for a >= 0 and b > 0
RoundPercent(a, b) == (200 * a + b) \div (2 * b)

\* an argument that is null or undefined, and one that is the array gs
NoList == [given |-> FALSE]

List(gs) == [given |-> TRUE, list |-> gs]

\* n games, the newest (the highest id) first, the ids starting after base
NewestFirst(base, n) == [i \in 1..n |-> base + n + 1 - i]

\* allGames.sort((a, b) => new Date(b.date) - new Date(a.date)): the later
\* id is the later game
RECURSIVE SortByDate(_)
SortByDate(ids) ==
  IF ids = {} THEN <<>>
  ELSE LET newest == CHOOSE x \in ids : \A y \in ids : y <= x
       IN  <<newest>> \o SortByDate(ids \ {newest})

\* Promise.all(batch.map(game => store.put(game))) and tx.done: one record
\* per id, a put on an id that is there replaces the record
PutAll(store, batch) == store \cup Ids(batch)

\* Math.min(100, Math.round((i + BATCH_SIZE) / games.length * 100))
BatchProgress(i, n) == Min(100, RoundPercent(i + BATCH_SIZE, n))

\* saveGames up to its loop: dbOpens is whether initDB resolves
saveGames(gs, dbOpens) ==
  LET call == [given |-> gs.given,
               games |-> IF gs.given THEN gs.list ELSE <<>>,
               i |-> 0, successCount |-> 0, calls |-> <<>>,
               attempts |-> <<>>, outcomes |-> <<>>, result |-> FALSE]
  IN  IF ~gs.given \/ gs.list = <<>>
      THEN call @@ [phase |-> "returned"]
      ELSE IF dbOpens THEN call @@ [phase |-> "running"]
           ELSE call @@ [phase |-> "threw"]

\* a loop that gives up at the first batch that fails
nextBatchUnlessFailed(s, saved) ==
  LET n == Len(s.games)
      batch == SubSeq(s.games, s.i + 1, Min(s.i + BATCH_SIZE, n))
      successCount == IF saved THEN s.successCount + Len(batch)
                      ELSE s.successCount
      last == s.i + BATCH_SIZE >= n \/ ~saved
  IN  [s EXCEPT !.i = s.i + BATCH_SIZE,
                !.successCount = successCount,
                !.calls = Append(s.calls, BatchProgress(s.i, n)),
                !.attempts = Append(s.attempts, s.i),
                !.outcomes = Append(s.outcomes, saved),
                !.phase = IF last THEN "returned" ELSE "running",
                !.result = IF last THEN successCount > 0 ELSE FALSE]

\* one turn of the loop of saveGames call s, the transaction of the batch
\* committing (saved) or not, and the return after the last turn
nextBatch(s, saved) ==
  LET n == Len(s.games)
      batch == SubSeq(s.games, s.i + 1, Min(s.i + BATCH_SIZE, n))
      successCount == IF saved THEN s.successCount + Len(batch)
                      ELSE s.successCount
      last == s.i + BATCH_SIZE >= n
  IN  [s EXCEPT !.i = s.i + BATCH_SIZE,
                !.successCount = successCount,
                !.calls = Append(s.calls, BatchProgress(s.i, n)),
                !.attempts = Append(s.attempts, s.i),
                !.outcomes = Append(s.outcomes, saved),
                !.phase = IF last THEN "returned" ELSE "running",
                !.result = IF last THEN successCount > 0 ELSE FALSE]

\* the handlers below touch the App component and the store only
AppOnly == UNCHANGED <<ctxVars, algVars, heapVars, codecVars>>

\* a turn of the loop; progressCallback is the one handleFetchGames passes
\* when the call is its own
SaveBatch ==
  /\ save.phase = "running"
  /\ \E saved \in BOOLEAN :
       LET batch == SubSeq(save.games, save.i + 1,
                           Min(save.i + BATCH_SIZE, Len(save.games)))
           after == nextBatch(save, saved)
       IN  /\ save' = after
           /\ gamesStore' = IF saved THEN PutAll(gamesStore, batch)
                            ELSE gamesStore
           /\ progress' = IF fetch.phase = "saving"
                          THEN Percent(50) + after.calls[Len(after.calls)]
                          ELSE progress
  /\ UNCHANGED <<isDbInitialized, storedGameCount, fetch>>
  /\ AppOnly

\* saveGames called on its own
SaveCalled ==
  /\ save.phase = "none"
  /\ \E n \in 0..MaxSaved, dbOpens \in BOOLEAN :
       save' \in {saveGames(List(NewestFirst(0, n)), dbOpens),
                  saveGames(NoList, dbOpens)}
  /\ UNCHANGED <<gamesStore, isDbInitialized, storedGameCount, progress,
                 fetch>>
  /\ AppOnly

\* a store with or without records, and no call made yet
SaveInit ==
  /\ CtxIdle /\ AlgIdle /\ HeapIdle /\ CodecIdle
  /\ gamesStore \in {{}, Ids(NewestFirst(0, BATCH_SIZE + 1))}
  /\ isDbInitialized = TRUE /\ storedGameCount = Cardinality(gamesStore)
  /\ progress = 0 /\ fetch = NoFetch /\ save = NoSave

SaveNext == SaveCalled \/ SaveBatch

SaveSpec == SaveInit /\ [][SaveNext]_vars

-----------------------------------------------------------------------------
(* Fetching and storing games (App) *)

\* archives.length of an account
ArchiveCounts == {1, 2}

\* how many games the fetch of one account returns, at Chess.com and at
\* Lichess
FetchSizes == {0, 1, BATCH_SIZE + 1}

LichessSizes == {0, 1}

\* the n newest games of Chess.com account a, and of the Lichess account: the
\* id of a game ends in the username
AccountGames(a, n) == NewestFirst(100 * a, n)

LichessGames(n) == NewestFirst(900, n)

\* the mount effect: initDB, getGames, setStoredGameCount. It is over before
\* a button is pressed.
setupDB ==
  /\ ~isDbInitialized
  /\ isDbInitialized' = TRUE
  /\ storedGameCount' = Cardinality(gamesStore)
  /\ UNCHANGED <<gamesStore, progress, fetch, save>>
  /\ AppOnly

\* handleFetchGames up to its first await, with c Chess.com and l Lichess
\* usernames that are not blank; with none it throws, and the finally
\* block runs in the same turn
FetchClicked ==
  /\ isDbInitialized /\ fetch = NoFetch /\ storedGameCount <= MaxShown
  /\ \E c \in 0..MaxAccounts, l \in 0..1 :
       IF c = 0 /\ l = 0
       THEN progress' = Percent(100) /\ fetch' = NoFetch
       ELSE /\ progress' = 0
            /\ fetch' = [phase |-> "fetching", chess |-> c, lichess |-> l,
                         archives |-> 0, processed |-> 0, allGames |-> <<>>]
  /\ UNCHANGED <<gamesStore, isDbInitialized, storedGameCount, save>>
  /\ AppOnly

\* fetchChessComGames: the list of archives has arrived
ArchivesListed ==
  /\ fetch.phase = "fetching" /\ fetch.chess > 0 /\ fetch.archives = 0
  /\ \E n \in ArchiveCounts : fetch' = [fetch EXCEPT !.archives = n]
  /\ UNCHANGED <<gamesStore, isDbInitialized, storedGameCount, progress, save>>
  /\ AppOnly

\* fetchChessComGames throws, at the list or at an archive: the account is
\* noted in errors and contributes no game
AccountFailed ==
  /\ fetch.phase = "fetching" /\ fetch.chess > 0
  /\ fetch' = [fetch EXCEPT !.chess = fetch.chess - 1, !.archives = 0,
                            !.processed = 0]
  /\ UNCHANGED <<gamesStore, isDbInitialized, storedGameCount, progress, save>>
  /\ AppOnly

\* one archive has arrived: progressCallback(prev => Math.max(prev,
\* archiveProgress)); after the last one, or at the break on gamesPerAccount,
\* the account's games are appended to allGames
ArchiveFetched ==
  /\ fetch.phase = "fetching" /\ fetch.archives > 0
  /\ LET processedArchives == fetch.processed + 1
         archiveProgress ==
           (Percent(100) * processedArchives) \div fetch.archives
     IN  /\ progress' = Max(progress, archiveProgress)
         /\ \/ /\ processedArchives < fetch.archives
               /\ fetch' = [fetch EXCEPT !.processed = processedArchives]
            \/ \E n \in FetchSizes :
                 /\ processedArchives = fetch.archives \/ n > 0
                 /\ fetch' = [fetch EXCEPT
                      !.allGames = fetch.allGames \o
                                   AccountGames(fetch.chess, n),
                      !.chess = fetch.chess - 1,
                      !.archives = 0, !.processed = 0]
  /\ UNCHANGED <<gamesStore, isDbInitialized, storedGameCount, save>>
  /\ AppOnly

\* fetchLichessGames has returned or thrown
LichessFetched ==
  /\ fetch.phase = "fetching" /\ fetch.chess = 0 /\ fetch.lichess > 0
  /\ \E n \in LichessSizes :
       fetch' = [fetch EXCEPT !.allGames = fetch.allGames \o LichessGames(n),
                              !.lichess = fetch.lichess - 1]
  /\ UNCHANGED <<gamesStore, isDbInitialized, storedGameCount, progress, save>>
  /\ AppOnly

\* the sort, and the call of saveGames or the throw on an empty list
FetchedAll ==
  /\ fetch.phase = "fetching" /\ fetch.chess = 0 /\ fetch.lichess = 0
  /\ LET sorted == SortByDate(Ids(fetch.allGames))
     IN  IF Len(fetch.allGames) > 0
         THEN \E dbOpens \in BOOLEAN :
                /\ save' = IF dbOpens THEN saveGames(List(sorted), dbOpens)
                           ELSE NoSave
                /\ IF dbOpens
                   THEN /\ progress' = Percent(50)
                        /\ fetch' = [fetch EXCEPT !.phase = "saving",
                                                  !.allGames = sorted]
                   ELSE progress' = Percent(100) /\ fetch' = NoFetch
         ELSE progress' = Percent(100) /\ fetch' = NoFetch /\ save' = NoSave
  /\ UNCHANGED <<gamesStore, isDbInitialized, storedGameCount>>
  /\ AppOnly

\* saveGames has returned: setStoredGameCount(prev => prev + allGames.length)
\* and the finally block; the call is over
FetchSaved ==
  /\ fetch.phase = "saving" /\ save.phase = "returned"
  /\ storedGameCount' = storedGameCount + Len(fetch.allGames)
  /\ progress' = Percent(100)
  /\ fetch' = NoFetch
  /\ save' = NoSave
  /\ UNCHANGED <<gamesStore, isDbInitialized>>
  /\ AppOnly

\* the Clear Database button, shown when storedGameCount > 0 and disabled
\* while loading, once confirmed
handleClearDatabase ==
  /\ isDbInitialized /\ fetch = NoFetch /\ storedGameCount > 0
  /\ gamesStore' = {}
  /\ storedGameCount' = 0
  /\ UNCHANGED <<isDbInitialized, progress, fetch, save>>
  /\ AppOnly

\* the store as an earlier session left it
AppInit ==
  /\ CtxIdle /\ AlgIdle /\ HeapIdle /\ CodecIdle
  /\ gamesStore \in {{}, Ids(AccountGames(1, 1))}
  /\ isDbInitialized = FALSE /\ storedGameCount = 0
  /\ progress = 0 /\ fetch = NoFetch /\ save = NoSave

AppNext ==
  \/ setupDB \/ FetchClicked \/ ArchivesListed \/ AccountFailed
  \/ ArchiveFetched \/ LichessFetched \/ FetchedAll \/ SaveBatch
  \/ FetchSaved \/ handleClearDatabase

AppSpec == AppInit /\ [][AppNext]_vars

-----------------------------------------------------------------------------
(* Claims about the scheduler (Spec, FairSpec) *)

Pending == {b \in DOMAIN builds : builds[b].pending}

\* what build b publishes and stores when it completes
FinalTree(b) == pruneTree(builds[b].tree, builds[b].minGameCount)
FinalMetadata(b) == [gameCount |-> Len(builds[b].games),
                     maxDepth |-> builds[b].depth,
                     minGames |-> builds[b].minGameCount,
                     timestamp |-> now]
FinalPayload(b) ==
  saveTreeToStorage(FinalTree(b), FinalMetadata(b), builds[b].cap)

\* the last event was the completion of a build started before another one
StaleCompletion ==
  ev.op = "chunk" /\ ev.final /\ ev.b < Len(builds)

AllFinished ==
  Len(builds) >= 2 /\ \A b \in DOMAIN builds : builds[b].done

\* C1: the completion of a build that a later build has superseded changes
\* neither the published tree nor the metadata nor the stored payload, and
\* when all builds have finished their last completion leaves those of the
\* newest build published.
C1_StaleCompletionDiscarded ==
  /\ [][StaleCompletion' =>
          UNCHANGED <<treeData, treeMetadata, stored>>]_vars
  /\ []((AllFinished /\ ev.op = "chunk" /\ ev.final) =>
          /\ treeData = FinalTree(Len(builds))
          /\ treeMetadata = FinalMetadata(Len(builds))
          /\ stored = FinalPayload(Len(builds)))

\* a superseded build has completed while the newer one was still running
C1_StaleCompletionSeen ==
  StaleCompletion /\ builds[Len(builds)].pending /\ treeData = FinalTree(ev.b)

\* C2: at most one build has chunk callbacks pending.
C2_AtMostOneBuildInFlight == Cardinality(Pending) <= 1

\* C3: a build neither prunes nor saves before its last chunk, it prunes and
\* saves exactly once, on completion, and nothing is written to the store
\* while a build still has chunks to process.
C3_NoPruneOrSaveBeforeCompletion ==
  /\ \A b \in DOMAIN builds :
       /\ ~builds[b].done => builds[b].prunes = 0 /\ builds[b].saves = 0
       /\ builds[b].done => builds[b].prunes = 1 /\ builds[b].saves = 1
  /\ (ev.b # 0 /\ ~ev.final) => (~ev.saved /\ ~ev.pruned)
  /\ ev.saved => Pending = {}

CeilDiv(n, d) == (n + d - 1) \div d


\* the state right after processChunk of build b took its completion branch
Completed(b) ==
  /\ builds[b].steps = Max(1, CeilDiv(Len(builds[b].games), chunkSize))
  /\ treeData = FinalTree(b)
  /\ workingTreeData = 0
  /\ treeMetadata = FinalMetadata(b)
  /\ processedGames = Len(builds[b].games)
  /\ ~buildingInProgress

Started(b) == b \in DOMAIN builds

Finished(b) == b \in DOMAIN builds /\ builds[b].done

C5_ProcessedMonotonic ==
  /\ [][Pending # {} =>
          /\ processedGames' >= processedGames
          /\ processedGames' - processedGames <= chunkSize]_vars
  /\ [](processedGames <= Len(games))
  /\ [](ev.started => processedGames = Min(chunkSize, Len(games)))

-----------------------------------------------------------------------------
(* Claims about the builder (BuildSpec) *)

\* the whole of inGames has been passed to the builder, each game once
Built == consumed = Len(inGames) /\ lastOp.op = "extend"

\* C6: after a build over G the root's frequency is the number of distinct
\* game ids in G.
C6_RootFrequencyCountsDistinctIds ==
  Built => tree[Root].frequency = Cardinality(Ids(inGames))

\* C9: adding a chunk a second time changes nothing.
C9_ExtendIdempotent ==
  lastOp.op = "again" => tree = prevTree

\* C10: after a build over G with maxDepth d, a parsed game is in the games
\* list of exactly the nodes whose path is a prefix, of length at most d, of
\* its plies, and each such prefix is a node; the games e4 e5 and e4 c5 with
\* d = 2 give frequencies 2 (root), 2 (e4), 1 (e5) and 1 (c5).
C10_GamesAlongTheirPath ==
  Built =>
    /\ \A i \in DOMAIN inGames :
         LET id == inGames[i] IN
         Game(id).pgn = "ok" =>
           /\ \A p \in DOMAIN tree :
                id \in Ids(tree[p].games) <=>
                  (IsPrefix(p, Game(id).moves) /\ Len(p) <= inDepth)
           /\ \A k \in 0..Len(Game(id).moves) :
                k <= inDepth => SubSeq(Game(id).moves, 1, k) \in DOMAIN tree
    /\ (inGames = <<1, 2>> /\ inDepth = 2) =>
         /\ DOMAIN tree = {Root, <<"e2e4">>, <<"e2e4", "e7e5">>,
                           <<"e2e4", "c7c5">>}
         /\ tree[Root].frequency = 2
         /\ tree[<<"e2e4">>].frequency = 2
         /\ tree[<<"e2e4", "e7e5">>].frequency = 1
         /\ tree[<<"e2e4", "c7c5">>].frequency = 1

\* a build whose depth cut a game short: the three-ply game with maxDepth 2
C10_DepthCutsGame ==
  /\ Built /\ inDepth = 2 /\ 4 \in Ids(inGames) /\ 1 \in Ids(inGames)
  /\ <<"d2d4", "d7d5">> \in DOMAIN tree
  /\ <<"d2d4", "d7d5", "c2c4">> \notin DOMAIN tree
  /\ 4 \in Ids(tree[<<"d2d4", "d7d5">>].games)
  /\ 1 \in Ids(tree[<<"e2e4">>].games)

-----------------------------------------------------------------------------
(* Claims about the trees (TreeSpec) *)

NoDuplicates(gs) == \A i, j \in DOMAIN gs : gs[i] = gs[j] => i = j

FrequencyIsGameCount(t) ==
  \A p \in DOMAIN t :
    /\ t[p].frequency = Cardinality(Ids(t[p].games))
    /\ NoDuplicates(t[p].games)

\* C7: in every tree the calls produce, each node's frequency is the number
\* of distinct game ids in its games list, which holds no id twice.
C7_FrequencyIsGameCount ==
  /\ lastOp.op # "none" => FrequencyIsGameCount(tree)
  /\ FrequencyIsGameCount(otherTree)

ChildBelowParent(t) ==
  \A p \in DOMAIN t \ {Root} : t[p].frequency <= t[Parent(p)].frequency

\* C8: in every tree the calls produce, no node has a higher frequency than
\* its parent.
C8_ChildBelowParent ==
  /\ lastOp.op # "none" => ChildBelowParent(tree)
  /\ ChildBelowParent(otherTree)

-----------------------------------------------------------------------------
(* Claims about skipped and move-less games (BuildSpec, DepthSpec) *)

RECURSIVE Parseable(_)
Parseable(gs) ==
  IF gs = <<>> THEN <<>>
  ELSE IF Game(Head(gs)).pgn = "bad" THEN Parseable(Tail(gs))
  ELSE <<Head(gs)>> \o Parseable(Tail(gs))

\* C11: a game whose PGN does not parse changes no node, the other games of
\* the chunk and of later chunks are processed, and the finished tree is the
\* tree of the other games alone, root included.
C11_MalformedGameSkipped ==
  /\ (lastOp.op = "extend" /\
      \A i \in DOMAIN lastOp.chunk : Game(lastOp.chunk[i]).pgn = "bad")
       => tree = prevTree
  /\ Built =>
       tree = incrementalBuildTree(InitialTree(Len(Parseable(inGames))),
                                   Parseable(inGames), inDepth)

RootOnly(id) == Game(id).pgn = "ok" /\ (Game(id).moves = <<>> \/ inDepth <= 0)

-----------------------------------------------------------------------------
(* Claims about pruning (PruneSpec) *)

\* the node at p and each of its ancestors but the root has frequency >= m
Survives(t, p, m) == \A k \in 1..Len(p) : t[SubSeq(p, 1, k)].frequency >= m

Survivors(t, m) == [p \in {q \in DOMAIN t : Survives(t, q, m)} |-> t[p]]

\* C13: pruneTree(T, m) consists of the root of T, whatever its frequency,
\* and of exactly the other nodes of T that have, themselves and all their
\* ancestors but the root, a frequency >= m, each as it is in T; the games
\* e4 e5 and e4 c5 pruned at 2 leave the root and e4.
C13_PruneKeepsFrequentPaths ==
  /\ \A m \in Thresholds : pruneTree(tree, m) = Survivors(tree, m)
  /\ lastOp.op = "prune" => \E m \in Thresholds : tree = Survivors(prevTree, m)
  /\ tree = incrementalBuildTree(InitialTree(2), <<1, 2>>, 3)
       => DOMAIN pruneTree(tree, 2) = {Root, <<"e2e4">>}

\* e4 e5 and e4 c5 have been pruned: e4 stays, its two children are gone
C13_ChildKeptWithoutItsChildren ==
  /\ lastOp.op = "prune"
  /\ DOMAIN prevTree = {Root, <<"e2e4">>, <<"e2e4", "e7e5">>,
                        <<"e2e4", "c7c5">>}
  /\ DOMAIN tree = {Root, <<"e2e4">>}

\* a node of frequency 2 went with its parent of frequency 1
C13_FrequentNodeBelowDroppedParent ==
  /\ lastOp.op = "prune"
  /\ <<"e2e4", "e7e5">> \in DOMAIN prevTree
  /\ prevTree[<<"e2e4">>].frequency = 1
  /\ prevTree[<<"e2e4", "e7e5">>].frequency = 2
  /\ DOMAIN tree = {Root}

\* C14: pruneTree leaves its input as it was: every object that existed
\* before the call is unchanged by it, the input still is the tree it was,
\* and the result of a call at any threshold is what it would be had no
\* call been made before.
C14_PruneLeavesInputIntact ==
  /\ [][\A a \in DOMAIN heap : heap'[a] = heap[a]]_vars
  /\ [](TreeAt(heap, node) = tree)
  /\ [](pruneArgs # <<>> =>
          TreeAt(heap, prunedNode) = pruneTree(tree, pruneArgs[Len(pruneArgs)]))

\* e4 e5 and e4 c5 pruned at 2, which drops two nodes, and then at 1
C14_ReprunedAtLowerThreshold ==
  /\ pruneArgs = <<2, 1>>
  /\ DOMAIN tree = {Root, <<"e2e4">>, <<"e2e4", "e7e5">>, <<"e2e4", "c7c5">>}
  /\ DOMAIN TreeAt(heap, prunedNode) = DOMAIN tree

\* C15: pruning is monotone in the threshold: for m1 >= m2 every node of
\* pruneTree(T, m1) is a node, at the same path, of pruneTree(T, m2).
C15_PruneMonotone ==
  \A m1, m2 \in Thresholds :
    m1 >= m2 => DOMAIN pruneTree(tree, m1) \subseteq DOMAIN pruneTree(tree, m2)

\* a tree that three thresholds cut to three different sizes
C15_ThresholdsCutDifferently ==
  /\ lastOp.op # "none"
  /\ \E m1, m2, m3 \in Thresholds :
       /\ m1 > m2 /\ m2 > m3
       /\ DOMAIN pruneTree(tree, m1) # DOMAIN pruneTree(tree, m2)
       /\ DOMAIN pruneTree(tree, m2) # DOMAIN pruneTree(tree, m3)
       /\ DOMAIN pruneTree(tree, m1) # {Root}

\* the thresholds the last pruneTree call may have been made with
LastThresholds == {b \in Thresholds : tree = pruneTree(prevTree, b)}

\* C30: on a tree where no child is more frequent than its parent, pruning at
\* a and then at b is pruning at max(a, b); so a pruned tree pruned again
\* higher is the unpruned tree pruned at the higher threshold, and pruned
\* again lower it stays as it is.
C30_PruneTwiceIsPruneAtMax ==
  /\ ChildBelowParent(tree) =>
       \A a, b \in Thresholds :
         pruneTree(pruneTree(tree, a), b) = pruneTree(tree, Max(a, b))
  /\ (lastOp.op = "prune" /\ ChildBelowParent(prevTree)) =>
       \A b \in LastThresholds : \A a \in Thresholds :
         /\ pruneTree(tree, a) = pruneTree(prevTree, Max(a, b))
         /\ a <= b => pruneTree(tree, a) = tree

\* a tree pruned at 2 that a higher threshold cuts further and that lacks
\* nodes a lower threshold would have kept
C30_PrunedBetweenTwoThresholds ==
  /\ lastOp.op = "prune" /\ ChildBelowParent(prevTree)
  /\ LastThresholds = {2}
  /\ DOMAIN pruneTree(tree, 3) # DOMAIN tree
  /\ DOMAIN pruneTree(prevTree, 1) # DOMAIN tree
  /\ DOMAIN pruneTree(tree, 3) # {Root}

-----------------------------------------------------------------------------
(* Claims about merging (MergeSpec, TreeSpec) *)

\* the same nodes, and at each node the same game ids and frequency
SameTree(a, b) ==
  /\ DOMAIN a = DOMAIN b
  /\ \A p \in DOMAIN a :
       /\ Ids(a[p].games) = Ids(b[p].games)
       /\ a[p].frequency = b[p].frequency

Union(m) == pruneTree(buildVariationTree(inGames \o otherGames, inDepth, 1), m)

\* C16: for G1 and G2 built unpruned with one maxDepth, mergeTrees of the
\* two builds pruned at m is the build of G1 and G2 together pruned at m
\* (same nodes, same game ids and frequency at each node), whichever of the
\* two is the base.
C16_MergeIsBuildOfUnion ==
  /\ lastOp.op = "merge" => \A m \in Thresholds : SameTree(pruneTree(tree, m), Union(m))
  /\ lastOp.op = "mergeInto" =>
       \A m \in Thresholds : SameTree(pruneTree(otherTree, m), Union(m))

\* {A} merged with {A, B}, A = e4 e5 and B = e4 c5, each way
C16_OverlappingListsMerged ==
  /\ inGames = <<1>> /\ otherGames = <<1, 2>> /\ inDepth = 3
  /\ lastOp.op = "mergeInto"
  /\ tree[<<"e2e4">>].frequency = 2
  /\ otherTree[<<"e2e4">>].frequency = 2

\* C17: mergeTrees of two trees built with different maxDepth is rejected:
\* it yields no combined tree, the base being left as the only tree there is.
C17_MixedDepthMergeRejected ==
  inDepth # otherDepth =>
    /\ lastOp.op = "merge" => tree = prevTree
    /\ lastOp.op = "mergeInto" => otherTree = prevTree

-----------------------------------------------------------------------------
(* Claims about persistence (CodecSpec, RebuildSpec, Spec) *)

\* C18: decoding what serializeTree(T, M) encoded gives back T and M, no
\* field of M added, dropped or overwritten.
C18_RoundTripIsIdentity ==
  (lastOp.op = "deserialize" /\ payload.kind = "json") =>
    /\ decoded.ok
    /\ decoded.tree = tree
    /\ decoded.metadata = givenMetadata

\* C20: a stored bare tree decodes to that tree with metadata marked
\* isLegacyFormat, shouldRebuildTree is true of that metadata whatever the
\* games and the parameters, and the mount effect that finds such a payload
\* publishes neither its tree nor its metadata: it starts a build when there
\* are games and leaves the tree empty when there are none.
C20_LegacyTreeNeverReused ==
  [][(~mounted /\ mounted' /\ stored.kind = "legacy") =>
       LET result == deserializeTree(stored)
       IN  /\ result.ok
           /\ result.tree = stored.tree
           /\ Has(result.metadata, "isLegacyFormat")
           /\ result.metadata.isLegacyFormat = TRUE
           /\ \A n \in CurrentCounts \cup StoreSizes :
              \A d \in CurrentDepths \cup ApplyDepths :
              \A m \in CurrentMinGames \cup ApplyMinGames :
                shouldRebuildTree(result.metadata, Upto(n), d, m)
           /\ treeData' # stored.tree
           /\ treeMetadata' # result.metadata
           /\ ~Has(treeMetadata', "isLegacyFormat")
           /\ IF Len(storeGames) > 0
              THEN /\ ev'.started /\ Len(builds') = 1
                   /\ builds'[1].games = storeGames
              ELSE /\ builds' = <<>> /\ treeData' = NoTree
                   /\ treeMetadata' = NullMeta]_vars

\* the context is mounted on a stored bare tree, with games and without
C20_MountedOnLegacyTree ==
  /\ mounted /\ ev.op = "load" /\ stored = LegacyPayload(LegacyTree)
  /\ LegacyTree # NoTree
  /\ Len(games) = 0

\* C19: shouldRebuildTree returns true exactly when the metadata is absent,
\* or lacks gameCount, maxDepth or minGames, or records a game count other
\* than the current one, a maxDepth below the requested one or a minGames
\* above the requested one; so it does for a recorded count of 100 against
\* 101 games and for a recorded maxDepth of 5 against a requested 10.
C19_RebuildExactlyWhenStale ==
  /\ lastOp.op = "rebuild" =>
       IF \/ givenMetadata = NullMeta
          \/ ~Has(givenMetadata, "gameCount")
          \/ ~Has(givenMetadata, "maxDepth")
          \/ ~Has(givenMetadata, "minGames")
       THEN rebuild
       ELSE rebuild <=> \/ givenMetadata.gameCount # current.games
                        \/ givenMetadata.maxDepth < current.maxDepth
                        \/ givenMetadata.minGames > current.minGames
  /\ (lastOp.op = "rebuild" /\
      givenMetadata = [gameCount |-> 100, maxDepth |-> 5, minGames |-> 2])
       => /\ current.games = 101 => rebuild
          /\ current.maxDepth = 10 => rebuild

\* a deeper and less pruned tree than requested, of the same game count, is
\* found reusable
C19_DeeperTreeReusable ==
  /\ lastOp.op = "rebuild" /\ ~rebuild
  /\ givenMetadata = [gameCount |-> 100, maxDepth |-> 10, minGames |-> 2]
  /\ current = [games |-> 100, maxDepth |-> 5, minGames |-> 15]

\* C21: a stored payload that does not parse makes deserializeTree return
\* null; the mount effect that finds it publishes nothing of it, starts a
\* build of all the stored games when there is at least one, and clears the
\* loading flag whether it builds or not.
C21_CorruptPayloadDiscarded ==
  [][(~mounted /\ mounted' /\ stored = CorruptPayload) =>
       /\ ~deserializeTree(stored).ok
       /\ loading' = FALSE
       /\ IF Len(storeGames) > 0
          THEN /\ ev'.started /\ Len(builds') = 1
               /\ builds'[1].games = storeGames
               /\ treeData' = IF builds'[1].done
                              THEN pruneTree(builds'[1].tree, DefaultMinGames)
                              ELSE builds'[1].tree
          ELSE /\ builds' = <<>> /\ treeData' = NoTree
               /\ treeMetadata' = NullMeta]_vars

\* the context is mounted on a corrupt payload and is building from the store
C21_BuildingAfterCorruptPayload ==
  /\ mounted /\ ev.op = "load" /\ stored = CorruptPayload
  /\ ~loading /\ buildingInProgress /\ Len(builds) = 1
  /\ builds[1].games = storeGames /\ Len(storeGames) = MaxGames

\* C22: with games present and a tree published, a handleApplyParameters call
\* that lowers minGames or raises maxDepth starts a full build, and never
\* re-prunes the published tree.
C22_LooserParametersRebuild ==
  [][(/\ applies' = applies + 1
      /\ Len(games) > 0 /\ treeData # NoTree
      /\ (minGames' < minGames \/ maxDepth' > maxDepth))
       => ev'.started /\ ~(ev'.pruned /\ ~ev'.final)]_vars

\* C23: with games present and a tree published, a handleApplyParameters call
\* that neither raises maxDepth nor lowers minGames (either may stay as it
\* is) re-prunes the published tree and starts no build.
C23_TighterParametersReprune ==
  [][(/\ applies' = applies + 1
      /\ Len(games) > 0 /\ treeData # NoTree
      /\ maxDepth' <= maxDepth /\ minGames' >= minGames)
       => /\ ~ev'.started
          /\ ev'.pruned
          /\ treeData' = pruneTree(treeData, minGames')]_vars

\* C24: while no build is in flight, no node of the published tree lies
\* deeper than the maxDepth state, nor deeper than the maxDepth the tree
\* metadata records.
C24_DepthWithinMaxDepth ==
  (Pending = {} /\ ~buildingInProgress /\ treeData # NoTree) =>
    \A p \in DOMAIN treeData :
      /\ Len(p) <= maxDepth
      /\ Has(treeMetadata, "maxDepth") => Len(p) <= treeMetadata.maxDepth

\* C25: the tree published as treeData changes only by being replaced: a
\* chunk that does not complete its build, and so calls no setTreeData,
\* leaves the nodes, games lists and frequencies of treeData as they were.
C25_PublishedTreeFrozen ==
  [][(ev'.op = "chunk" /\ ~ev'.final) => treeData' = treeData]_vars

\* C26: when the mount effect reuses a stored tree recorded with a smaller
\* minGames or a larger maxDepth than requested, the tree it publishes has
\* no node below the root with a frequency under the requested minGames and
\* no node deeper than the requested maxDepth.
C26_ReusedTreeReprunedOnLoad ==
  [][(/\ ~mounted /\ mounted'
      /\ deserializeTree(stored).ok
      /\ ~shouldRebuildTree(deserializeTree(stored).metadata, storeGames,
                            maxDepth, minGames)
      /\ \/ deserializeTree(stored).metadata.minGames < minGames
         \/ deserializeTree(stored).metadata.maxDepth > maxDepth)
       => \A p \in DOMAIN treeData' :
            /\ p # Root => ~(treeData'[p].frequency < minGames')
            /\ Len(p) <= maxDepth']_vars

\* C27: the metadata written with a stored tree tells the truth about it:
\* after a build completion, the number of games that build consumed, the
\* depth it built with and the threshold it pruned at; after a re-prune in
\* place, the threshold just pruned at.
C27_StoredMetadataTrue ==
  [][/\ ev'.final =>
          /\ stored'.metadata.gameCount = Len(builds'[ev'.b].games)
          /\ stored'.metadata.maxDepth = builds'[ev'.b].depth
          /\ stored'.metadata.minGames = builds'[ev'.b].minGameCount
     /\ (ev'.saved /\ ~ev'.final) =>
          stored'.metadata.minGames = minGames']_vars

\* what C28 asks of result = mergeTrees(base, delta)
MergedAsUnion(base, delta, result) ==
  /\ \A p \in DOMAIN base \cap DOMAIN delta :
       /\ p \in DOMAIN result
       /\ Ids(result[p].games) = Ids(base[p].games) \cup Ids(delta[p].games)
       /\ SubSeq(result[p].games, 1, Len(base[p].games)) = base[p].games
       /\ NoDuplicates(result[p].games)
       /\ result[p].frequency =
            Cardinality(Ids(base[p].games) \cup Ids(delta[p].games))
  /\ \A q \in DOMAIN delta \ DOMAIN base :
       q \in DOMAIN result /\ result[q] = delta[q]

\* C28: mergeTrees(base, delta) gives, at every node the two trees share, the
\* root included, base's games followed by those of delta's whose id base
\* lacks, with a frequency that is the number of ids in the union; a subtree
\* only delta has is copied as it is.
C28_MergeIsUnionById ==
  /\ (lastOp.op = "merge" /\ prevTree # NoTree /\ otherTree # NoTree)
       => MergedAsUnion(prevTree, otherTree, tree)
  /\ (lastOp.op = "mergeInto" /\ prevTree # NoTree /\ tree # NoTree)
       => MergedAsUnion(prevTree, tree, otherTree)

\* the games of build b that its chunks have passed to the builder so far
Consumed(b) == SubSeq(builds[b].games, 1, builds[b].next)

\* C29: the chunks of a build are consecutive slices of its input that
\* together cover it, each game being passed to the builder once and in
\* input order; and the tree the build holds is the one a single
\* incrementalBuildTree call over the games consumed so far gives from the
\* same initial root, so at completion that of the whole list.
C29_ChunkedBuildIsOneBuild ==
  /\ [](\A b \in DOMAIN builds :
         /\ builds[b].processed = builds[b].next
         /\ builds[b].next = Min(builds[b].steps * chunkSize,
                                 Len(builds[b].games))
         /\ builds[b].done <=> builds[b].next = Len(builds[b].games)
         /\ builds[b].tree =
              incrementalBuildTree(InitialTree(Len(builds[b].games)),
                                   Consumed(b), builds[b].depth))
  /\ [][\A b \in DOMAIN builds' :
          (b \in DOMAIN builds /\ builds'[b] # builds[b]) =>
            /\ builds'[b].steps = builds[b].steps + 1
            /\ builds'[b].next > builds[b].next
            /\ builds'[b].tree =
                 incrementalBuildTree(builds[b].tree,
                    SubSeq(builds[b].games, builds[b].next + 1,
                           builds'[b].next), builds[b].depth)]_vars

\* a build of three chunks has completed
C29_ThreeChunkBuildDone ==
  \E b \in DOMAIN builds :
    /\ builds[b].done /\ builds[b].steps = 3
    /\ Len(builds[b].games) = MaxGames
    /\ Cardinality(DOMAIN builds[b].tree) > 1

-----------------------------------------------------------------------------
(* Claims about the controls and the store (UiSpec, Spec) *)

\* C31: buildingInProgress is true whenever a started build has a chunk
\* callback pending and false only when none has; the controls being
\* disabled while it is true, no build is started while another is in
\* flight.
C31_ControlsLockedWhileBuilding ==
  /\ [](buildingInProgress <=> Pending # {})
  /\ [](Cardinality(Pending) <= 1)
  /\ [][(Len(builds') > Len(builds)) =>
          (Pending = {} /\ ~buildingInProgress)]_vars

\* a build started from the Apply button, after the one of the mount
\* completed, has chunks pending
C31_SecondBuildAfterFirst ==
  /\ Len(builds) = 2 /\ builds[1].done /\ builds[2].pending
  /\ builds[2].steps < 3
  /\ buildingInProgress

-----------------------------------------------------------------------------
(* Claims about the selection (NavSpec) *)

\* a step in which handleApplyParameters re-pruned the published tree in place
Repruned == ev'.op = "apply" /\ ev'.pruned /\ ~ev'.started

\* C33: when handleApplyParameters re-prunes in place and the position of the
\* selected node is still in the re-pruned tree, the selection, the current
\* position and the path are at that position after the step as before it;
\* the selection goes back to the root only when that position was pruned away.
C33_SurvivingSelectionKept ==
  [][(Repruned /\ selectedNode # NoNode) =>
       IF selectedNode.at \in DOMAIN treeData'
       THEN /\ selectedNode'.at = selectedNode.at
            /\ currentPosition' = currentPosition
            /\ Len(path') = Len(path)
            /\ \A i \in DOMAIN path : path'[i].at = path[i].at
       ELSE /\ selectedNode' = Ref(treeObj', Root)
            /\ currentPosition' = StartPosition
            /\ path' = Chain(treeObj', Root)]_vars

\* C34: while no build is in flight and a tree is published, selectedNode is
\* a node of the published tree, path is the chain of nodes from its root
\* down to selectedNode, and currentPosition is the position of selectedNode;
\* an undo on a path of one entry changes nothing.
C34_SelectionInPublishedTree ==
  /\ []((mounted /\ Pending = {} /\ treeData # NoTree) =>
          /\ selectedNode # NoNode
          /\ selectedNode.obj = treeObj
          /\ selectedNode.at \in DOMAIN treeData
          /\ path = Chain(treeObj, selectedNode.at)
          /\ path[Len(path)] = selectedNode
          /\ currentPosition = selectedNode.at)
  /\ [][(handleUndo /\ Len(path) = 1) =>
          /\ UNCHANGED <<selectedNode, currentPosition, path>>
          /\ UNCHANGED <<treeData, treeObj, stored, builds>>]_vars

\* a build started from Apply has completed and put the selection back on the
\* node two moves down that was selected when the build was started
C34_SelectionRestoredAfterBuild ==
  /\ mounted /\ Pending = {} /\ treeData # NoTree
  /\ Len(builds) = 1 /\ builds[1].done /\ ev.final /\ applies = 2
  /\ Len(path) = 3 /\ selectedNode = Ref(treeObj, <<"e2e4", "e7e5">>)

-----------------------------------------------------------------------------
(* Claims about an empty game list (Spec) *)

\* the stored payload decodes to a tree whose metadata has every field, a
\* game count of 0, and parameters the defaults do not exceed
ReusableWhenEmpty ==
  LET result == deserializeTree(stored)
  IN  /\ result.ok /\ result.tree # NoTree
      /\ result.metadata # NullMeta
      /\ Has(result.metadata, "gameCount") /\ result.metadata.gameCount = 0
      /\ Has(result.metadata, "maxDepth")
      /\ result.metadata.maxDepth >= DefaultMaxDepth
      /\ Has(result.metadata, "minGames")
      /\ result.metadata.minGames <= DefaultMinGames

\* C35: with an empty game list neither the load nor handleApplyParameters
\* starts a build or writes the stored payload. The load publishes the
\* stored tree and its metadata when that tree is reusable and otherwise
\* leaves the tree and the metadata as they are; handleApplyParameters
\* changes maxDepth and minGames and nothing else of the context.
C35_EmptyListBuildsNothing ==
  /\ [][(~mounted /\ mounted' /\ storeGames = <<>>) =>
          /\ builds' = builds /\ ~buildingInProgress' /\ stored' = stored
          /\ processedGames' = processedGames
          /\ IF ReusableWhenEmpty
             THEN /\ treeData' = deserializeTree(stored).tree
                  /\ treeMetadata' = deserializeTree(stored).metadata
             ELSE UNCHANGED <<treeData, treeMetadata>>]_vars
  /\ [][(applies' # applies /\ games = <<>>) =>
          /\ builds' = builds /\ ~buildingInProgress' /\ stored' = stored
          /\ UNCHANGED <<treeData, treeObj, treeMetadata, workingTreeData,
                         processedGames, selectedNode, currentPosition, path,
                         games, storeGames, loading, mounted>>]_vars

\* an empty Game Store and the tree of an earlier session: the load has
\* published it, and handleApplyParameters has run on the empty list
C35_AppliedOnEmptyListWithTree ==
  /\ mounted /\ games = <<>> /\ treeData = FirstTree(MaxGames)
  /\ ev.op = "apply" /\ applies = 2 /\ builds = <<>>
  /\ stored = FirstPayload(MaxGames)

-----------------------------------------------------------------------------
(* Claims about the Game Store (SaveSpec, AppSpec) *)

\* the ids of games.slice(i, i + BATCH_SIZE)
SliceIds(gs, i) ==
  {gs[j] : j \in (i + 1)..Min(i + BATCH_SIZE, Len(gs))}

\* C38: saveGames goes on with the next batch of 20 when a batch fails. Every
\* batch is attempted once and in the order of the list, a batch that commits
\* puts its games into the store and one that fails puts none, the progress
\* callback is called once per batch with a value that never decreases, never
\* exceeds 100 and is 100 for the last batch, and the call returns true
\* exactly when a batch was saved; on an empty or missing list it returns
\* false with no batch attempted and the store as it was.
C38_EveryBatchAttemptedOnce ==
  /\ []((save.phase \in {"running", "returned"} /\ save.games # <<>>) =>
          LET n == Len(save.games) IN
          /\ \A k \in DOMAIN save.attempts :
               save.attempts[k] = (k - 1) * BATCH_SIZE
          /\ Len(save.calls) = Len(save.attempts)
          /\ Len(save.outcomes) = Len(save.attempts)
          /\ \A k \in DOMAIN save.calls :
               /\ save.calls[k] <= 100
               /\ k > 1 => save.calls[k - 1] <= save.calls[k]
          /\ save.successCount <= n
          /\ save.phase = "running" => Len(save.attempts) * BATCH_SIZE < n
          /\ save.phase = "returned" =>
               /\ Len(save.attempts) = CeilDiv(n, BATCH_SIZE)
               /\ save.calls[Len(save.calls)] = 100
               /\ save.result <=>
                    \E k \in DOMAIN save.outcomes : save.outcomes[k])
  /\ []((save.phase = "returned" /\ (~save.given \/ save.games = <<>>)) =>
          /\ ~save.result
          /\ save.attempts = <<>> /\ save.calls = <<>>)
  /\ [][(save.phase = "none" /\ save'.phase # "running") =>
          gamesStore' = gamesStore]_vars
  /\ [][(save.phase = "running" /\ save' # save) =>
          /\ Len(save'.attempts) = Len(save.attempts) + 1
          /\ gamesStore' =
               IF save'.outcomes[Len(save'.outcomes)]
               THEN gamesStore \cup SliceIds(save.games, save.i)
               ELSE gamesStore]_vars

\* three batches, the second of which failed, and the call returned true
C38_ReturnedAfterFailedBatch ==
  /\ save.phase = "returned" /\ Len(save.games) = MaxSaved
  /\ save.outcomes = <<TRUE, FALSE, TRUE>>
  /\ save.calls[3] = 100 /\ save.result

\* C36: once the mount effect has run and while no fetch is in flight, the
\* storedGameCount the app shows is the number of records in the Game Store,
\* whatever fetches and clears came before, also a fetch of games whose ids
\* the store already held.
C36_ShownCountIsRecordCount ==
  (isDbInitialized /\ fetch = NoFetch) =>
    storedGameCount = Cardinality(gamesStore)

\* C37: within one handleFetchGames run the progress never goes down, stays
\* at or below 50 while archives are being fetched, is between 50 and 100
\* while the games are being saved, and is not 100 before saveGames has
\* returned.
C37_ProgressMonotoneUntilSaved ==
  /\ [](fetch.phase = "fetching" => progress <= Percent(50))
  /\ [](fetch.phase = "saving" =>
          /\ Percent(50) <= progress /\ progress <= Percent(100)
          /\ progress = Percent(100) =>
               (save.phase = "returned" /\ save.i >= Len(fetch.allGames)))
  /\ [][(fetch # NoFetch) => progress' >= progress]_vars

====
